---- MODULE Spec2Model ----
(***************************************************************************)
(* jshell: the execution core of the interpreter (src/unnamed/part_001).   *)
(*                                                                         *)
(* The session is modelled at the level of parsed pipelines: shell_loop    *)
(* reads a line, execute dispatches each stage to a builtin handler or to  *)
(* launch_process, multi-stage pipelines run one std::thread per stage,    *)
(* and the job table lives across lines.  External processes are part of   *)
(* the environment: a process exits on its own ("src") or once it has read *)
(* end-of-stream on its standard input ("filter").                         *)
(***************************************************************************)
EXTENDS Integers, Sequences, FiniteSets, TLC

\* ------------------------------------------------------------------ bounds
MaxStages == 2      \* longest pipeline read by the loop
MaxProcs == 3       \* processes CreateProcessA can create in one session

\* ------------------------------------------------------- program constants
STILL_ACTIVE == 259         \* <windows.h>, compared in jobs
NOT_FOUND == 127            \* launch_process: "Command not found"

\* Exit codes an external process can end with.
ExitCodes == {0, STILL_ACTIVE}

Pids == 1..MaxProcs
Stages == 1..MaxStages

\* ---------------------------------------------------------------- commands
\* struct Command after parsing: word 0, the first argument word (only the
\* job-control builtins read it), the background flag and the redirection
\* files the command names.
BuiltinNames == {"echo", "jobs", "fg", "bg", "exit"}
ExternalNames == {"src", "filter", "nosuch"}
RedirFiles == <<"input_file", "output_file", "error_file">>

IsBuiltin(c) == c.name \in BuiltinNames

\* Decimal words a job id can be written as, and std::stoi on the first
\* argument word: the number a decimal word denotes, 0 - 1 for a word stoi
\* throws std::invalid_argument on.
Numerals == <<"1", "2", "3", "4", "5", "6", "7", "8", "9">>
stoi(w) ==
    IF \E k \in 1..Len(Numerals) : Numerals[k] = w
    THEN CHOOSE k \in 1..Len(Numerals) : Numerals[k] = w
    ELSE 0 - 1

\* The first argument words the lines of the model give fg and bg.
JobArgs == {"none", "abc", "2"}

BuiltinCommands ==
    [name : {"echo", "jobs", "exit"}, arg : {"none"}, background : {FALSE},
     redirs : {{}}]
    \cup
    [name : {"fg", "bg"}, arg : JobArgs, background : {FALSE}, redirs : {{}}]

\* The redirections the lines of the model use: none, or all three files.
Redirs == { {}, {"input_file", "output_file", "error_file"} }

ExternalCommands ==
    [name : ExternalNames, arg : {"none"}, background : BOOLEAN, redirs : Redirs]

Commands == BuiltinCommands \cup ExternalCommands

\* parse_pipeline's results for the lines of a session (never empty here:
\* shell_loop skips the empty line).
\* A line of several stages is built from the commands without redirections
\* (launch_process treats them alike in a stage thread and in the main thread).
PipeCommands ==
    { c \in Commands :
        /\ c.redirs = {}
        /\ c.arg # "2"
        /\ c.name \in {"echo", "fg", "src", "filter"}
        /\ c.background => c.name = "src" }

\* A first stage reads the console, so a "filter" there behaves as a "src".
SingleCommands == { c \in Commands : c.name # "filter" }

Pipelines ==
    [1..1 -> SingleCommands]
    \cup { l \in UNION { [1..n -> PipeCommands] : n \in 2..MaxStages } :
             l[1].name # "filter" }

\* ------------------------------------------------------------------- state
VARIABLES
    mpc,            \* shell_loop / execute position of the main thread
    cmds,           \* the pipeline execute was last called with
    spc,            \* position of each stage (its thread, or the main thread)
    exit_codes,     \* execute: std::vector<int> exit_codes (of the last pipeline)
    mtx,            \* execute: std::mutex mtx, 0 when free, else the holder
    jobs,           \* ShellState::jobs, in table order
    next_job_id,    \* ShellState::next_job_id
    running,        \* ShellState::running
    last_exit_code, \* ShellState::last_exit_code
    ret,            \* value of the last return of execute, NoRet while none
    procs,          \* the processes created in this session
    ph,             \* the shell's process handle of each process
    spid,           \* launch_process: pi.dwProcessId of each stage, 0 if none
    rh,             \* launch_process: redirection handles each stage holds
    fgjob,          \* fg: the Job moved out of the table, per stage
    stage_exit,     \* the exit code the process of each stage ended with
    nreg,           \* the number of jobs registered so far
    fgd,            \* the job ids fg has taken out of the table
    redir_failed,   \* the file the last launch_process could not open
    npipes,         \* execute: the pipes pipe_read and pipe_write hold
    hInput,         \* launch_process: the hInput each stage was called with
    hOutput,        \* launch_process: the hOutput each stage was called with
    th,             \* the shell's handle of each process's first thread
    opened,         \* the redirection files the last launch_process opened
    ppc,            \* parsing: "idle", "input" (text given) or "done"
    text,           \* parsing: the string a function is applied to
    tokens,         \* tokenize: the words returned
    variables,      \* ShellState::variables, a function from names to values
    environ,        \* the process environment, a function from names to values
    expanded,       \* substitute_variables: the string returned
    aliases,        \* ShellState::aliases, a function from names to texts
    commands,       \* parse_pipeline: the Commands returned (execute's argument)
    files,          \* the file system: the lines of each file that exists
    console,        \* the characters written to the shell's standard output
    bpc,            \* execute on builtins: "ready" or "done" for each stage
    codes,          \* execute on builtins: exit_codes
    result,         \* execute on builtins: the value returned, NoRet while none
    ipc,            \* start-up: position in initialize_shell and shell_loop
    frames,         \* source: the calls in progress, the innermost last
    scripts         \* the script files that exist: the lines of each

\* The variables of the parsing functions, and those of the session.
pvars == <<ppc, text, tokens, variables, environ, expanded, aliases, commands>>
svars == <<mpc, cmds, spc, exit_codes, mtx, jobs, next_job_id, running,
           last_exit_code, ret, procs, ph, spid, rh, fgjob, stage_exit, nreg,
           fgd, redir_failed, npipes, hInput, hOutput, th, opened>>
hvars == <<th, opened>>
evars == <<npipes, hInput, hOutput>>
bvars == <<files, console, bpc, codes, result>>
ivars == <<ipc, frames, scripts>>
vars == <<svars, pvars, hvars, bvars, ivars>>

\* A pipe endpoint: the read or the write side of the k-th pipe of the
\* pipeline; INVALID_HANDLE_VALUE stands for none.
NoEndpoint == [pipe |-> 0, side |-> "none"]
ReadSide(k) == [pipe |-> k, side |-> "read"]
WriteSide(k) == [pipe |-> k, side |-> "write"]

NoRet == 0 - 1
\* A process: not yet created ("none"), running, exited with the shell still
\* holding a handle of it (its exit code can be queried), or gone.
NoProc == [st |-> "none", code |-> 0, kind |-> "src", piped |-> FALSE, wr |-> {}]
GoneProc == [st |-> "gone", code |-> 0, kind |-> "src", piped |-> FALSE, wr |-> {}]

\* CloseHandle on the shell's handle of each process in ps.
CloseHandles(ps) ==
    [q \in Pids |-> IF q \in ps /\ procs[q].st = "exited" THEN GoneProc ELSE procs[q]]
NoJob == [job_id |-> 0, pid |-> 0, is_running |-> FALSE, is_stopped |-> FALSE]

\* Variant: a Job that starts out stopped.
JobStopped(pid, id) == [job_id |-> id, pid |-> pid, is_running |-> FALSE, is_stopped |-> TRUE]

\* struct Job, as its constructor builds it.
Job(pid, id) == [job_id |-> id, pid |-> pid, is_running |-> TRUE, is_stopped |-> FALSE]

\* ShellState's member initialisers.
StateInit ==
    /\ mpc = "read"
    /\ cmds = << >>
    /\ spc = [i \in Stages |-> "idle"]
    /\ exit_codes = [i \in Stages |-> 0]
    /\ mtx = 0
    /\ jobs = << >>
    /\ next_job_id = 1
    /\ running = TRUE
    /\ last_exit_code = 0
    /\ ret = NoRet
    /\ procs = [p \in Pids |-> NoProc]
    /\ ph = [p \in Pids |-> "none"]
    /\ spid = [i \in Stages |-> 0]
    /\ rh = [i \in Stages |-> {}]
    /\ fgjob = [i \in Stages |-> NoJob]
    /\ stage_exit = [i \in Stages |-> NoRet]
    /\ nreg = 0
    /\ fgd = {}
    /\ redir_failed = "none"
    /\ npipes = 0
    /\ hInput = [i \in Stages |-> NoEndpoint]
    /\ hOutput = [i \in Stages |-> NoEndpoint]
    /\ th = [p \in Pids |-> "none"]
    /\ opened = {}

\* No start-up script exists: initialize_shell sources nothing.
NoStartup == ipc = "loop" /\ frames = << >> /\ scripts = << >>

\* shell_loop before its first line.
SessionInit == StateInit /\ NoStartup

\* No parsing function is under study in a session.
Init ==
    /\ SessionInit
    /\ ppc = "idle"
    /\ text = << >>
    /\ tokens = << >>
    /\ variables = << >>
    /\ environ = << >>
    /\ expanded = << >>
    /\ aliases = << >>
    /\ commands = << >>
    /\ files = << >>
    /\ console = << >>
    /\ bpc = << >>
    /\ codes = << >>
    /\ result = NoRet

\* ----------------------------------------------------------------- helpers
Single == mpc = "single"
Created == { p \in Pids : procs[p].st # "none" }
NextPid == Cardinality(Created) + 1
N == Len(cmds)

\* The processes the stages of the current pipeline have started.
PipelinePids == { spid[i] : i \in Stages } \ {0}

\* Sequence s without its k-th element (vector::erase).
Erase(s, k) == [j \in 1..(Len(s) - 1) |-> IF j < k THEN s[j] ELSE s[j + 1]]

\* std::find_if over state.jobs by job_id: the index, 0 for end().
FindJob(js, id) ==
    IF \E k \in 1..Len(js) : js[k].job_id = id
    THEN CHOOSE k \in 1..Len(js) :
            /\ js[k].job_id = id
            /\ \A m \in 1..(k - 1) : js[m].job_id # id
    ELSE 0

\* --------------------------------------------------------------- execute
\* What a stage leaves behind when its dispatch returns r.  A single-stage
\* pipeline runs in the main thread and execute returns r at once; a stage
\* thread stores r in exit_codes (lec is last_exit_code after the handler,
\* pid the process the stage has started, 0 for none).  The locals of
\* execute and of the loop body are gone once execute has returned.
Complete(i, r, lec, pid) ==
    /\ spc' = [spc EXCEPT ![i] = "done"]
    /\ IF Single
       THEN /\ mpc' = "read"
            /\ cmds' = << >>
            /\ ret' = r
            /\ last_exit_code' = r
            /\ exit_codes' = exit_codes
            /\ spid' = [j \in Stages |-> 0]
            /\ stage_exit' = [j \in Stages |-> NoRet]
            /\ fgjob' = [j \in Stages |-> NoJob]
       ELSE /\ mpc' = mpc
            /\ cmds' = cmds
            /\ ret' = ret
            /\ last_exit_code' = lec
            /\ exit_codes' = [exit_codes EXCEPT ![i] = r]
            /\ spid' = [spid EXCEPT ![i] = pid]
            /\ stage_exit' = stage_exit
            /\ fgjob' = fgjob

\* A handler throws (std::stoi).  In the main thread the exception leaves
\* execute and shell_loop's catch reports it; in a stage thread nothing
\* catches it and std::terminate ends the interpreter.
Throw(i) ==
    /\ spc' = [spc EXCEPT ![i] = "done"]
    /\ mpc' = IF Single THEN "read" ELSE "terminated"
    /\ cmds' = IF Single THEN << >> ELSE cmds
    /\ UNCHANGED <<ret, last_exit_code, exit_codes, spid, stage_exit, fgjob>>

\* The lock_guard of a builtin stage is released when the handler is left.
Unlock(i) == mtx' = IF mtx = i THEN 0 ELSE mtx

\* A builtin handler may run: in the main thread at once, in a stage thread
\* once the thread holds mtx.
BuiltinReady(i, name) ==
    /\ mpc \in {"single", "join"}
    /\ i \in 1..N
    /\ cmds[i].name = name
    /\ spc[i] = IF Single THEN "ready" ELSE "locked"

\* shell_loop reads a line and calls execute on its pipeline; execute
\* dispatches a single stage in the main thread, and for more stages creates
\* the pipes and one thread per stage.
ReadLine(line) ==
    /\ mpc = "read"
    /\ running
    /\ cmds' = line
    /\ mpc' = IF Len(line) = 1 THEN "single" ELSE "join"
    /\ spc' = [i \in Stages |-> IF i <= Len(line) THEN "ready" ELSE "idle"]
    /\ exit_codes' = [i \in Stages |-> 0]
    /\ ret' = NoRet
    /\ redir_failed' = "none"
    /\ npipes' = Len(line) - 1
    /\ hInput' = [i \in Stages |-> NoEndpoint]
    /\ hOutput' = [i \in Stages |-> NoEndpoint]
    /\ opened' = {}
    /\ th' = th
    /\ UNCHANGED <<fgjob, mtx, jobs, next_job_id, running, last_exit_code,
                   procs, ph, spid, rh, stage_exit, nreg, fgd, pvars, bvars, ivars>>

\* CreatePipe fails: execute returns 1 before any stage starts.
PipeFail(line) ==
    /\ mpc = "read"
    /\ running
    /\ Len(line) >= 2
    /\ spc' = [i \in Stages |-> "idle"]
    /\ ret' = 1
    /\ UNCHANGED <<fgjob, mpc, cmds, exit_codes, mtx, jobs, next_job_id, running,
                   last_exit_code, procs, ph, spid, rh, stage_exit, nreg, fgd,
                   redir_failed, pvars, evars, hvars, bvars, ivars>>

\* while (state.running) is false: shell_loop ends.
LoopExit ==
    /\ mpc = "read"
    /\ ~running
    /\ mpc' = "stopped"
    /\ UNCHANGED <<cmds, spc, exit_codes, mtx, jobs, next_job_id, running,
                   last_exit_code, ret, procs, ph, spid, rh, fgjob, stage_exit,
                   nreg, fgd, redir_failed, pvars, evars, hvars, bvars, ivars>>

\* A builtin stage thread takes the lock_guard on mtx.
Lock(i) ==
    /\ mpc = "join"
    /\ i \in 1..N
    /\ IsBuiltin(cmds[i])
    /\ spc[i] = "ready"
    /\ mtx = 0
    /\ mtx' = i
    /\ spc' = [spc EXCEPT ![i] = "locked"]
    /\ UNCHANGED <<mpc, cmds, exit_codes, jobs, next_job_id, running,
                   last_exit_code, ret, procs, ph, spid, rh, fgjob, stage_exit,
                   nreg, fgd, redir_failed, pvars, evars, hvars, bvars, ivars>>

\* Variant: execute joins only the thread of the last stage.
JoinLastOnly(n) == spc[n] = "done"

\* The threads execute joins on before it returns.
JoinGuard(n) == \A i \in 1..n : spc[i] = "done"

\* Variant: execute reports exit_codes.front().
FirstStageResult(n) == exit_codes[1]

\* The exit code execute reports for a pipeline of n stages.
PipelineResult(n) == exit_codes[n]

\* execute joins every stage thread, stores exit_codes.back() and returns;
\* the pipe handles it holds are closed as pipe_read/pipe_write go away.
Join ==
    /\ mpc = "join"
    /\ JoinGuard(N)
    /\ mpc' = "read"
    /\ last_exit_code' = PipelineResult(N)
    /\ ret' = PipelineResult(N)
    /\ procs' = [p \in Pids |-> [procs[p] EXCEPT !.wr = @ \ {0}]]
    /\ cmds' = << >>
    /\ spid' = [i \in Stages |-> 0]
    /\ stage_exit' = [i \in Stages |-> NoRet]
    /\ fgjob' = [i \in Stages |-> NoJob]
    /\ npipes' = 0
    /\ hInput' = [i \in Stages |-> NoEndpoint]
    /\ hOutput' = [i \in Stages |-> NoEndpoint]
    /\ UNCHANGED <<spc, exit_codes, mtx, jobs, next_job_id, running, ph, rh,
                   nreg, fgd, redir_failed, pvars, hvars, bvars, ivars>>

\* ---------------------------------------------------------------- builtins
\* echo stands for the builtins that touch no job-control state and return 0.
Echo(i) ==
    /\ BuiltinReady(i, "echo")
    /\ Complete(i, 0, last_exit_code, 0)
    /\ Unlock(i)
    /\ UNCHANGED <<jobs, next_job_id, running, procs, ph, rh, nreg, fgd, redir_failed, pvars, evars, hvars, bvars, ivars>>

\* exit without a code: running = false, last_exit_code = 0, returns 0.
ExitShell(i) ==
    /\ BuiltinReady(i, "exit")
    /\ running' = FALSE
    /\ Complete(i, 0, 0, 0)
    /\ Unlock(i)
    /\ UNCHANGED <<jobs, next_job_id, procs, ph, rh, nreg, fgd, redir_failed, pvars, evars, hvars, bvars, ivars>>

\* GetExitCodeProcess on an open process handle.
GetExitCodeProcess(p) ==
    IF procs[p].st = "exited" THEN procs[p].code ELSE STILL_ACTIVE

\* jobs: the test that a job is finished and is to be reaped.
Finished(j) == GetExitCodeProcess(j.pid) # STILL_ACTIVE

\* jobs: reap the finished jobs (CloseHandle, erase), list the rest, return 0.
JobsList(i) ==
    /\ BuiltinReady(i, "jobs")
    /\ LET reaped == { jobs[k].pid : k \in { m \in 1..Len(jobs) : Finished(jobs[m]) } } IN
        /\ jobs' = SelectSeq(jobs, LAMBDA j : ~Finished(j))
        /\ ph' = [p \in Pids |-> IF p \in reaped THEN "closed" ELSE ph[p]]
        /\ procs' = CloseHandles(reaped)
    /\ Complete(i, 0, last_exit_code, 0)
    /\ Unlock(i)
    /\ UNCHANGED <<next_job_id, running, rh, nreg, fgd, redir_failed, pvars, evars, hvars, bvars, ivars>>

\* fg and bg: std::stoi(args[1]) throws on a word that is no number; it is
\* reached only when the table is not empty.
StoiThrows(c) == jobs # << >> /\ c.arg # "none" /\ stoi(c.arg) < 0

\* Variant: an id that no job has selects the most recent job.
SelectLast(js, arg) == IF js = << >> THEN 0 ELSE Len(js)

\* fg and bg: the index of the job the command names, 0 when there is none:
\* the job with the given id, or state.jobs.back() without an id.
SelectJob(js, arg) ==
    IF js = << >> THEN 0
    ELSE IF arg = "none" THEN Len(js)
    ELSE FindJob(js, stoi(arg))

\* Variant: fg leaves the job in the table.
FgKeep(js, k) == js

\* fg: the table after the selected job has been moved out of it.
FgRemove(js, k) == Erase(js, k)

FgThrow(i) ==
    /\ BuiltinReady(i, "fg")
    /\ StoiThrows(cmds[i])
    /\ Throw(i)
    /\ UNCHANGED <<mtx, jobs, next_job_id, running, procs, ph, rh,
                   nreg, fgd, redir_failed, pvars, evars, hvars, bvars, ivars>>

\* fg: empty table, or no job with the given id: returns 1.
FgFail(i) ==
    /\ BuiltinReady(i, "fg")
    /\ ~StoiThrows(cmds[i])
    /\ SelectJob(jobs, cmds[i].arg) = 0
    /\ Complete(i, 1, last_exit_code, 0)
    /\ Unlock(i)
    /\ UNCHANGED <<jobs, next_job_id, running, procs, ph, rh, nreg, fgd, redir_failed, pvars, evars, hvars, bvars, ivars>>

\* fg: the job is moved out of the table, then WaitForSingleObject.
FgBegin(i) ==
    /\ BuiltinReady(i, "fg")
    /\ ~StoiThrows(cmds[i])
    /\ SelectJob(jobs, cmds[i].arg) # 0
    /\ LET k == SelectJob(jobs, cmds[i].arg) IN
        /\ fgjob' = [fgjob EXCEPT ![i] = jobs[k]]
        /\ fgd' = fgd \cup {jobs[k].job_id}
        /\ jobs' = FgRemove(jobs, k)
    /\ spc' = [spc EXCEPT ![i] = "fgwait"]
    /\ UNCHANGED <<mpc, cmds, exit_codes, mtx, next_job_id, running,
                   last_exit_code, ret, procs, ph, spid, rh, stage_exit, nreg, redir_failed, pvars, evars, hvars, bvars, ivars>>

\* fg: the process has exited: GetExitCodeProcess, CloseHandle, return.
FgDone(i) ==
    /\ mpc \in {"single", "join"}
    /\ spc[i] = "fgwait"
    /\ procs[fgjob[i].pid].st = "exited"
    /\ ph' = [ph EXCEPT ![fgjob[i].pid] = "closed"]
    /\ procs' = CloseHandles({fgjob[i].pid})
    /\ Complete(i, GetExitCodeProcess(fgjob[i].pid), last_exit_code, 0)
    /\ Unlock(i)
    /\ UNCHANGED <<jobs, next_job_id, running, rh, nreg, fgd, redir_failed, pvars, evars, hvars, bvars, ivars>>

BgThrow(i) ==
    /\ BuiltinReady(i, "bg")
    /\ StoiThrows(cmds[i])
    /\ Throw(i)
    /\ UNCHANGED <<mtx, jobs, next_job_id, running, procs, ph, rh,
                   nreg, fgd, redir_failed, pvars, evars, hvars, bvars, ivars>>

\* bg: returns 1 on an empty table, an unknown id or a job that is not
\* stopped; a stopped job is marked running and bg returns 0.
Bg(i) ==
    /\ BuiltinReady(i, "bg")
    /\ ~StoiThrows(cmds[i])
    /\ LET k == SelectJob(jobs, cmds[i].arg)
           resume == k # 0 /\ jobs[k].is_stopped
       IN
        /\ jobs' = IF resume
                   THEN [jobs EXCEPT ![k].is_stopped = FALSE, ![k].is_running = TRUE]
                   ELSE jobs
        /\ Complete(i, IF resume THEN 0 ELSE 1, last_exit_code, 0)
    /\ Unlock(i)
    /\ UNCHANGED <<next_job_id, running, procs, ph, rh, nreg, fgd, redir_failed, pvars, evars, hvars, bvars, ivars>>

\* ---------------------------------------------------------- launch_process
\* launch_process first opens the redirection files the command names, in
\* the order input, output, error, and returns 1 at the first that cannot be
\* opened; whether a file opens is the file system's answer at that moment.
\* Only then does it resolve word 0.

\* find_executable: the empty string for a name that resolves to no file.
Resolves(c) == c.name # "nosuch"

\* The state pointer launch_process is given: execute passes &state for a
\* single stage and nullptr from a stage thread.
HasState == Single

\* The value launch_process returns when it does not wait: exit_code as
\* initialised.
NotWaited == 0

\* An external stage may enter launch_process.
LaunchReady(i) ==
    /\ mpc \in {"single", "join"}
    /\ i \in 1..N
    /\ ~IsBuiltin(cmds[i])
    /\ spc[i] = "ready"

\* Variant: every stage is handed the write side of the pipe before it.
WriteSideBefore(i) == IF i = N THEN NoEndpoint ELSE WriteSide(i - 1)

\* The endpoints the thread of stage i computes: the read side of the pipe
\* before it unless it is the first stage, the write side of the pipe after
\* it unless it is the last.
StageInput(i) == IF i = 1 THEN NoEndpoint ELSE ReadSide(i - 1)
StageOutput(i) == IF i = N THEN NoEndpoint ELSE WriteSide(i)

\* launch_process is entered for stage i with these endpoints.
Called(i) ==
    /\ hInput' = [hInput EXCEPT ![i] = StageInput(i)]
    /\ hOutput' = [hOutput EXCEPT ![i] = StageOutput(i)]
    /\ npipes' = npipes

\* CloseHandle on a handle in state h: an open handle is closed; closing a
\* handle that is not open is an error the model keeps visible.
CloseHandle(h) == IF h = "open" THEN "closed" ELSE "twice"

\* Variant: pi.hThread is left open when launch_process returns.
ThreadHandleLeft(h) == h

\* The thread handle once launch_process is left: ScopedHandle hThread
\* closes it.
ThreadHandleAfter(h) == CloseHandle(h)

\* The redirection files of c that launch_process has opened when it comes
\* to file number k.
OpenedBefore(c, k) == { RedirFiles[m] : m \in 1..(k - 1) } \cap c.redirs

\* Variant: the handles opened so far stay open when launch_process gives up.
RedirLeak(c, k) == OpenedBefore(c, k)

\* The redirection handles still open after launch_process has returned
\* because file number k could not be opened: the ScopedHandle destructors
\* have closed every one.
RedirHeldAfterFail(c, k) == {}

\* File number k cannot be opened: returns 1, nothing is started.
LaunchRedirFail(i) ==
    /\ LaunchReady(i)
    /\ \E k \in 1..Len(RedirFiles) :
          /\ RedirFiles[k] \in cmds[i].redirs
          /\ redir_failed' = RedirFiles[k]
          /\ rh' = [rh EXCEPT ![i] = RedirHeldAfterFail(cmds[i], k)]
          /\ opened' = OpenedBefore(cmds[i], k)
    /\ Complete(i, 1, last_exit_code, 0)
    /\ Called(i)
    /\ th' = th
    /\ UNCHANGED <<mtx, jobs, next_job_id, running, procs, ph, nreg, fgd, pvars, bvars, ivars>>

\* find_executable returns "": returns 127, nothing is started.
LaunchNotFound(i) ==
    /\ LaunchReady(i)
    /\ ~Resolves(cmds[i])
    /\ Complete(i, NOT_FOUND, last_exit_code, 0)
    /\ Called(i)
    /\ opened' = cmds[i].redirs
    /\ th' = th
    /\ UNCHANGED <<mtx, jobs, next_job_id, running, procs, ph, rh,
                   nreg, fgd, redir_failed, pvars, bvars, ivars>>

\* CreateProcessA fails (it can at any time, and does once the session has
\* created MaxProcs processes): returns 1.
LaunchCreateFail(i) ==
    /\ LaunchReady(i)
    /\ Resolves(cmds[i])
    /\ Complete(i, 1, last_exit_code, 0)
    /\ Called(i)
    /\ opened' = cmds[i].redirs
    /\ th' = th
    /\ UNCHANGED <<mtx, jobs, next_job_id, running, procs, ph, rh,
                   nreg, fgd, redir_failed, pvars, bvars, ivars>>

\* CreateProcessA succeeds for stage i: process p starts.  Its standard
\* input is the read side of pipe[i-1] unless stage i is the first or names
\* an input file.  bInheritHandles is TRUE and every pipe handle was created
\* inheritable, so p holds a write handle of every pipe of the pipeline, as
\* do the shell (0) and the running processes of the other stages.
\* What the program does with its standard input, and whether the process
\* of stage i is one that reads a pipe until end-of-stream.
ProgramKind(c) == IF c.name = "filter" THEN "filter" ELSE "src"
Piped(i) ==
    /\ ~Single
    /\ i > 1
    /\ "input_file" \notin cmds[i].redirs
    /\ ProgramKind(cmds[i]) = "filter"

Spawn(i, p) ==
    LET c == cmds[i]
        group == { q \in PipelinePids : procs[q].st = "run" } \cup {p}
    IN [q \in Pids |->
          IF q = p
          THEN [st |-> "run", code |-> 0, kind |-> ProgramKind(c),
                piped |-> Piped(i),
                wr |-> IF Piped(i) THEN group \cup {0} ELSE {}]
          ELSE IF q \in group /\ procs[q].piped
               THEN [procs[q] EXCEPT !.wr = @ \cup {p}]
               ELSE procs[q]]

CanCreate(i) ==
    /\ LaunchReady(i)
    /\ Resolves(cmds[i])
    /\ NextPid \in Pids

\* Foreground command: launch_process waits for the process.
LaunchWait(i) ==
    /\ CanCreate(i)
    /\ ~cmds[i].background
    /\ procs' = Spawn(i, NextPid)
    /\ ph' = [ph EXCEPT ![NextPid] = "open"]
    /\ spid' = [spid EXCEPT ![i] = NextPid]
    /\ rh' = [rh EXCEPT ![i] = cmds[i].redirs]
    /\ spc' = [spc EXCEPT ![i] = "wait"]
    /\ Called(i)
    /\ opened' = cmds[i].redirs
    /\ th' = [th EXCEPT ![NextPid] = "open"]
    /\ UNCHANGED <<mpc, cmds, exit_codes, mtx, jobs, next_job_id, running,
                   last_exit_code, ret, fgjob, stage_exit, nreg, fgd, redir_failed, pvars, bvars, ivars>>

\* WaitForSingleObject returns: GetExitCodeProcess, CloseHandle, return the
\* exit code; the redirection handles are closed as launch_process is left.
WaitDone(i) ==
    /\ mpc \in {"single", "join"}
    /\ spc[i] = "wait"
    /\ procs[spid[i]].st = "exited"
    /\ ph' = [ph EXCEPT ![spid[i]] = CloseHandle(@)]
    /\ procs' = CloseHandles({spid[i]})
    /\ rh' = [rh EXCEPT ![i] = {}]
    /\ Complete(i, GetExitCodeProcess(spid[i]), last_exit_code, spid[i])
    /\ opened' = opened
    /\ th' = [th EXCEPT ![spid[i]] = ThreadHandleAfter(@)]
    /\ UNCHANGED <<mtx, jobs, next_job_id, running, nreg, fgd, redir_failed, pvars, evars, bvars, ivars>>

\* Variant: a new Job is numbered by its place in the table.
TableSizeJobId == Len(jobs) + 1

\* The id a new Job gets, and next_job_id after it (state->next_job_id++).
NewJobId == next_job_id
JobIdAfter == next_job_id + 1

\* Background command with a state pointer: a Job is appended to the table
\* and launch_process returns without waiting.
LaunchJob(i) ==
    /\ CanCreate(i)
    /\ cmds[i].background
    /\ HasState
    /\ procs' = Spawn(i, NextPid)
    /\ ph' = [ph EXCEPT ![NextPid] = "open"]
    /\ jobs' = Append(jobs, Job(NextPid, NewJobId))
    /\ nreg' = nreg + 1
    /\ next_job_id' = JobIdAfter
    /\ Complete(i, NotWaited, last_exit_code, NextPid)
    /\ Called(i)
    /\ opened' = cmds[i].redirs
    /\ th' = [th EXCEPT ![NextPid] = ThreadHandleAfter("open")]
    /\ UNCHANGED <<mtx, running, rh, fgd, redir_failed, pvars, bvars, ivars>>

\* Background command without a state pointer: the process handle is closed
\* and launch_process returns without waiting.
LaunchDetached(i) ==
    /\ CanCreate(i)
    /\ cmds[i].background
    /\ ~HasState
    /\ procs' = Spawn(i, NextPid)
    /\ ph' = [ph EXCEPT ![NextPid] = CloseHandle("open")]
    /\ Complete(i, NotWaited, last_exit_code, NextPid)
    /\ Called(i)
    /\ opened' = cmds[i].redirs
    /\ th' = [th EXCEPT ![NextPid] = ThreadHandleAfter("open")]
    /\ UNCHANGED <<mtx, jobs, next_job_id, running, rh, nreg, fgd, redir_failed, pvars, bvars, ivars>>

\* ------------------------------------------------------------- environment
\* A process reading a pipe sees end-of-stream once no write handle of the
\* pipe is open: the shell has closed its own and every process holding an
\* inherited one has exited.
SeesEof(p) == procs[p].wr = {}

\* A process exits: a "src" on its own, a "filter" once its standard input
\* is at end-of-stream (the console and files always get there).  Its
\* handles are closed; its exit code stays readable while the shell holds a
\* handle of it.
ProcExit(p, code) ==
    /\ procs[p].st = "run"
    /\ procs[p].kind = "filter" /\ procs[p].piped => SeesEof(p)
    /\ procs' = [q \in Pids |->
                  IF q = p
                  THEN IF ph[p] = "open"
                       THEN [GoneProc EXCEPT !.st = "exited", !.code = code]
                       ELSE GoneProc
                  ELSE [procs[q] EXCEPT !.wr = @ \ {p}]]
    /\ stage_exit' = [i \in Stages |-> IF spid[i] = p THEN code ELSE stage_exit[i]]
    /\ UNCHANGED <<mpc, cmds, spc, exit_codes, mtx, jobs, next_job_id, running,
                   last_exit_code, ret, ph, spid, rh, fgjob, nreg, fgd, redir_failed, pvars, evars, hvars, bvars, ivars>>

\* --------------------------------------------------------------------- spec
Next ==
    \/ \E line \in Pipelines : ReadLine(line)
    \/ \E line \in Pipelines : PipeFail(line)
    \/ LoopExit
    \/ Join
    \/ \E i \in Stages : Lock(i)
    \/ \E i \in Stages : Echo(i)
    \/ \E i \in Stages : ExitShell(i)
    \/ \E i \in Stages : JobsList(i)
    \/ \E i \in Stages : FgThrow(i)
    \/ \E i \in Stages : FgFail(i)
    \/ \E i \in Stages : FgBegin(i)
    \/ \E i \in Stages : FgDone(i)
    \/ \E i \in Stages : BgThrow(i)
    \/ \E i \in Stages : Bg(i)
    \/ \E i \in Stages : LaunchRedirFail(i)
    \/ \E i \in Stages : LaunchNotFound(i)
    \/ \E i \in Stages : LaunchCreateFail(i)
    \/ \E i \in Stages : LaunchWait(i)
    \/ \E i \in Stages : WaitDone(i)
    \/ \E i \in Stages : LaunchJob(i)
    \/ \E i \in Stages : LaunchDetached(i)
    \/ \E p \in Pids, code \in ExitCodes : ProcExit(p, code)

Spec == Init /\ [][Next]_vars

\* --------------------------------------------- sessions of job-control lines
\* The single-stage lines: every registration of a Job happens in one, and
\* jobs, fg and bg run in the main thread.
JobLines == { l \in Pipelines : Len(l) = 1 }

JobNext ==
    \/ \E line \in JobLines : ReadLine(line)
    \/ LoopExit
    \/ \E i \in Stages : Echo(i)
    \/ \E i \in Stages : ExitShell(i)
    \/ \E i \in Stages : JobsList(i)
    \/ \E i \in Stages : FgThrow(i)
    \/ \E i \in Stages : FgFail(i)
    \/ \E i \in Stages : FgBegin(i)
    \/ \E i \in Stages : FgDone(i)
    \/ \E i \in Stages : BgThrow(i)
    \/ \E i \in Stages : Bg(i)
    \/ \E i \in Stages : LaunchRedirFail(i)
    \/ \E i \in Stages : LaunchNotFound(i)
    \/ \E i \in Stages : LaunchCreateFail(i)
    \/ \E i \in Stages : LaunchWait(i)
    \/ \E i \in Stages : WaitDone(i)
    \/ \E i \in Stages : LaunchJob(i)
    \/ \E p \in Pids, code \in ExitCodes : ProcExit(p, code)

JobSpec == Init /\ [][JobNext]_vars

\* ------------------------------------- sessions that leave the job table alone
\* The lines of any length without jobs, fg and bg and without a single
\* command in the background: the job table stays empty.
RunLines ==
    { l \in Pipelines :
        /\ \A i \in 1..Len(l) : l[i].name \notin {"jobs", "fg", "bg"}
        /\ Len(l) = 1 => ~l[1].background }

RunNext ==
    \/ \E line \in RunLines : ReadLine(line)
    \/ \E line \in RunLines : PipeFail(line)
    \/ LoopExit
    \/ Join
    \/ \E i \in Stages : Lock(i)
    \/ \E i \in Stages : Echo(i)
    \/ \E i \in Stages : ExitShell(i)
    \/ \E i \in Stages : LaunchRedirFail(i)
    \/ \E i \in Stages : LaunchNotFound(i)
    \/ \E i \in Stages : LaunchCreateFail(i)
    \/ \E i \in Stages : LaunchWait(i)
    \/ \E i \in Stages : WaitDone(i)
    \/ \E i \in Stages : LaunchDetached(i)
    \/ \E p \in Pids, code \in ExitCodes : ProcExit(p, code)

RunSpec == Init /\ [][RunNext]_vars

\* ---------------------------------------- sessions of external commands only
\* The lines whose stages are all external commands: every way into and out
\* of launch_process, with and without a job sink.  A single command is in
\* the foreground with its redirection files, or in the background without;
\* a longer line has its last stage in the background.
LaunchLines ==
    { l \in Pipelines :
        /\ \A i \in 1..Len(l) : ~IsBuiltin(l[i])
        /\ Len(l) = 1 =>
              /\ l[1].background => l[1].name = "src" /\ l[1].redirs = {}
              /\ ~l[1].background => l[1].redirs # {}
        /\ Len(l) > 1 =>
              \A i \in 1..Len(l) :
                  l[i].name = "src" /\ (l[i].background <=> i = Len(l)) }

LaunchNext ==
    \/ \E line \in LaunchLines : ReadLine(line)
    \/ \E line \in LaunchLines : PipeFail(line)
    \/ Join
    \/ \E i \in Stages : LaunchRedirFail(i)
    \/ \E i \in Stages : LaunchNotFound(i)
    \/ \E i \in Stages : LaunchCreateFail(i)
    \/ \E i \in Stages : LaunchWait(i)
    \/ \E i \in Stages : WaitDone(i)
    \/ \E i \in Stages : LaunchJob(i)
    \/ \E i \in Stages : LaunchDetached(i)
    \/ \E p \in Pids, code \in ExitCodes : ProcExit(p, code)

LaunchSpec == Init /\ [][LaunchNext]_vars

\* ----------------------------------------------- sessions of fg and bg lines
\* The lines that fill the job table (a single command in the background) and
\* the lines of fg and bg alone, with and without a job id: single, or piped
\* with bg as the last stage after fg stages.
JobCommands == [name : {"fg", "bg"}, arg : {"none", "2"}, background : {FALSE},
                redirs : {{}}]

FgBgLines ==
    { l \in [1..1 -> SingleCommands] :
        l[1].name = "src" /\ l[1].background /\ l[1].redirs = {} }
    \cup [1..1 -> JobCommands]
    \cup { l \in UNION { [1..n -> JobCommands] : n \in 2..MaxStages } :
              \A i \in 1..Len(l) : l[i].name = "bg" <=> i = Len(l) }

FgBgNext ==
    \/ \E line \in FgBgLines : ReadLine(line)
    \/ \E line \in FgBgLines : PipeFail(line)
    \/ Join
    \/ \E i \in Stages : Lock(i)
    \/ \E i \in Stages : FgFail(i)
    \/ \E i \in Stages : FgBegin(i)
    \/ \E i \in Stages : FgDone(i)
    \/ \E i \in Stages : Bg(i)
    \/ \E i \in Stages : LaunchCreateFail(i)
    \/ \E i \in Stages : LaunchJob(i)
    \/ \E p \in Pids, code \in ExitCodes : ProcExit(p, code)

FgBgSpec == Init /\ [][FgBgNext]_vars

\* ------------------------------------------- pipelines of external commands
\* The lines of two or more foreground external stages whose first stage
\* ends on its own: the pipelines whose termination depends only on
\* end-of-stream reaching the later stages.
PipeLines ==
    { l \in Pipelines :
        /\ Len(l) >= 2
        /\ l[1].name = "src"
        /\ \A i \in 1..Len(l) : ~IsBuiltin(l[i]) /\ ~l[i].background }

PipeNext ==
    \/ \E line \in PipeLines : ReadLine(line)
    \/ \E line \in PipeLines : PipeFail(line)
    \/ Join
    \/ \E i \in Stages : LaunchCreateFail(i)
    \/ \E i \in Stages : LaunchWait(i)
    \/ \E i \in Stages : WaitDone(i)
    \/ \E p \in Pids, code \in ExitCodes : ProcExit(p, code)

\* Every thread that can run does run, and every process that may exit (a
\* "src" at any time, a "filter" once it sees end-of-stream) does exit.
PipeFair ==
    /\ WF_vars(Join)
    /\ \A i \in Stages : WF_vars(LaunchWait(i) \/ LaunchCreateFail(i))
    /\ \A i \in Stages : WF_vars(WaitDone(i))
    /\ \A p \in Pids : WF_vars(\E code \in ExitCodes : ProcExit(p, code))

PipeSpec == Init /\ [][PipeNext]_vars /\ PipeFair

\* ---------------------------------------------------------------- tokenize
\* A string is a sequence of characters; the characters with a meaning.
SP == " "
DQ == "\""
SQ == "'"
Quotes == {DQ, SQ}

\* std::isspace on the characters of the model.
IsSpace(c) == c = SP

\* The strings over alphabet A of at most n characters.
Strings(A, n) == UNION { [1..k -> A] : k \in 0..n }

\* Variant: either quote character closes a quoted region.
AnyQuoteCloses(c, q) == c \in Quotes

\* tokenize: character c closes the region opened by quote_char q.
ClosesQuote(c, q) == c = q

\* tokenize: the loop body on character c; st holds tokens, current_token
\* and quote_char ("" while in_quotes is false).
TokStep(st, c) ==
    IF c \in Quotes /\ st.q = ""
    THEN [st EXCEPT !.q = c]
    ELSE IF st.q # "" /\ ClosesQuote(c, st.q)
    THEN [st EXCEPT !.q = ""]
    ELSE IF IsSpace(c) /\ st.q = ""
    THEN IF st.cur # << >>
         THEN [st EXCEPT !.toks = Append(@, st.cur), !.cur = << >>]
         ELSE st
    ELSE [st EXCEPT !.cur = Append(@, c)]

RECURSIVE TokLoop(_, _)
TokLoop(st, str) ==
    IF str = << >> THEN st ELSE TokLoop(TokStep(st, Head(str)), Tail(str))

tokenize(str) ==
    LET st == TokLoop([toks |-> << >>, cur |-> << >>, q |-> ""], str)
    IN  IF st.cur # << >> THEN Append(st.toks, st.cur) ELSE st.toks

\* The inputs tokenize is studied on: every short string over letters,
\* blanks and both quote characters, and three longer lines.
MaxTokLen == 5
TokAlphabet == {"a", SP, DQ, SQ}
Line1 == <<"a", SP, DQ, "b", SP, "c", DQ, SP, "d">>
Line2 == <<"a", SP, SQ, "b", DQ, "c", SQ, SP, "d">>
Line3 == <<"a", SP, DQ, "b", SP, "c">>
TokInputs == Strings(TokAlphabet, MaxTokLen) \cup {Line1, Line2, Line3}

\* The results of the parsing functions before any is applied, and the
\* empty tables.
NoResults == tokens = << >> /\ expanded = << >> /\ commands = << >>
NoVariables == variables = << >> /\ environ = << >>
NoAliases == aliases = << >>
NoOutput == console = << >> /\ bpc = << >> /\ codes = << >> /\ result = NoRet
NoFiles == files = << >>

TokInit ==
    /\ SessionInit
    /\ ppc = "input"
    /\ text \in TokInputs
    /\ NoResults
    /\ NoOutput
    /\ NoFiles
    /\ NoVariables
    /\ NoAliases

Tokenize ==
    /\ ppc = "input"
    /\ tokens' = tokenize(text)
    /\ ppc' = "done"
    /\ UNCHANGED <<text, variables, environ, expanded, aliases, commands, svars, bvars, ivars>>

TokNext == Tokenize

TokSpec == TokInit /\ [][TokNext]_vars

\* ----------------------------------------------------- substitute_variables

\* The character classes of var_pattern.
Letters ==
    {"A", "B", "C", "D", "E", "F", "G", "H", "I", "J", "K", "L", "M",
     "N", "O", "P", "Q", "R", "S", "T", "U", "V", "W", "X", "Y", "Z",
     "a", "b", "c", "d", "e", "f", "g", "h", "i", "j", "k", "l", "m",
     "n", "o", "p", "q", "r", "s", "t", "u", "v", "w", "x", "y", "z"}
Digits == {"0", "1", "2", "3", "4", "5", "6", "7", "8", "9"}
IsNameStart(c) == c \in Letters \cup {"_"}
IsNameChar(c) == c \in Letters \cup Digits \cup {"_"}

\* The last position of the longest run of name characters that starts at
\* position i ([A-Za-z0-9_]* is greedy).
RECURSIVE NameEnd(_, _)
NameEnd(s, i) ==
    IF i < Len(s) /\ IsNameChar(s[i + 1]) THEN NameEnd(s, i + 1) ELSE i

\* The position of the first "}" at or after position i, 0 when there is none.
RECURSIVE FirstClose(_, _)
FirstClose(s, i) ==
    IF i > Len(s) THEN 0
    ELSE IF s[i] = "}" THEN i
    ELSE FirstClose(s, i + 1)

NoMatch == [last |-> 0, name |-> << >>]

\* var_pattern tried at position i: the braced alternative first, then the
\* bare name.
MatchAt(s, i) ==
    IF s[i] # "$" \/ i = Len(s) THEN NoMatch
    ELSE LET close == FirstClose(s, i + 2)
         IN  IF s[i + 1] = "{" /\ close > i + 2
                THEN [last |-> close, name |-> SubSeq(s, i + 2, close - 1)]
             ELSE IF IsNameStart(s[i + 1])
                THEN [last |-> NameEnd(s, i + 1),
                      name |-> SubSeq(s, i + 1, NameEnd(s, i + 1))]
             ELSE NoMatch

\* std::regex_search from position p: the leftmost position that matches,
\* 0 when none does.
RECURSIVE SearchFrom(_, _)
SearchFrom(s, p) ==
    IF p > Len(s) THEN 0
    ELSE IF MatchAt(s, p).last > 0 THEN p
    ELSE SearchFrom(s, p + 1)

\* The environment consulted before the session table.
EnvFirst(vs, env, name) ==
    IF name \in DOMAIN env THEN env[name]
    ELSE IF name \in DOMAIN vs THEN vs[name]
    ELSE << >>

\* The value appended for a reference: state.variables first, then
\* _dupenv_s, else the empty string.
VarValue(vs, env, name) ==
    IF name \in DOMAIN vs THEN vs[name]
    ELSE IF name \in DOMAIN env THEN env[name]
    ELSE << >>

\* The while loop of substitute_variables from search_start = p, with the
\* final append of the unmatched rest.
RECURSIVE SubstFrom(_, _, _, _)
SubstFrom(s, p, vs, env) ==
    LET at == SearchFrom(s, p)
    IN  IF at = 0 THEN SubSeq(s, p, Len(s))
        ELSE SubSeq(s, p, at - 1)
             \o VarValue(vs, env, MatchAt(s, at).name)
             \o SubstFrom(s, MatchAt(s, at).last + 1, vs, env)

substitute_variables(s, vs, env) == SubstFrom(s, 1, vs, env)

\* Bounded inputs: texts over the characters of references, and tables over
\* two names; one session value is itself a reference.
MaxTextLen == 4
VarAlphabet == {"$", "{", "}", "A", "B"}
VarNames == {<<"A">>, <<"B">>}
SessionValues == {<<"x">>, <<"$", "A">>}
EnvValues == {<<"y">>}
Tables(names, values) == UNION { [d -> values] : d \in SUBSET names }

VarInit ==
    /\ SessionInit
    /\ ppc = "input"
    /\ text \in Strings(VarAlphabet, MaxTextLen)
    /\ variables \in Tables(VarNames, SessionValues)
    /\ environ \in Tables(VarNames, EnvValues)
    /\ NoResults
    /\ NoOutput
    /\ NoFiles
    /\ NoAliases

Substitute ==
    /\ ppc = "input"
    /\ expanded' = substitute_variables(text, variables, environ)
    /\ ppc' = "done"
    /\ UNCHANGED <<text, tokens, variables, environ, aliases, commands, svars, bvars, ivars>>

VarNext == Substitute

VarSpec == VarInit /\ [][VarNext]_vars

\* ------------------------------------------------------------ parse_command

\* std::string::find: the first position at which pat occurs in s, 0 for npos.
RECURSIVE FindFrom(_, _, _)
FindFrom(s, pat, i) ==
    IF i + Len(pat) - 1 > Len(s) THEN 0
    ELSE IF SubSeq(s, i, i + Len(pat) - 1) = pat THEN i
    ELSE FindFrom(s, pat, i + 1)

Find(s, pat) == FindFrom(s, pat, 1)

\* find_last_not_of(" \t"): the last position holding no blank, 0 for npos.
RECURSIVE FindLastNotBlank(_, _)
FindLastNotBlank(s, i) ==
    IF i = 0 THEN 0
    ELSE IF ~IsSpace(s[i]) THEN i
    ELSE FindLastNotBlank(s, i - 1)

\* The text with every blank around it removed before the test for "&".
TrimmedEndsWith(s, c) ==
    FindLastNotBlank(s, Len(s)) > 0 /\ s[FindLastNotBlank(s, Len(s))] = c

\* temp_str.ends_with('&'), on the text as substituted.
EndsWith(s, c) == Len(s) > 0 /\ s[Len(s)] = c

\* pop_back, then the trailing blanks cut unless nothing else is left.
StripBackground(s) ==
    LET popped == SubSeq(s, 1, Len(s) - 1)
        last == FindLastNotBlank(popped, Len(popped))
    IN  IF last # 0 THEN SubSeq(popped, 1, last) ELSE popped

\* get_home_directory: USERPROFILE in the environment, else empty.
UserProfile == <<"U", "S", "E", "R", "P", "R", "O", "F", "I", "L", "E">>
get_home_directory(env) ==
    IF UserProfile \in DOMAIN env THEN env[UserProfile] ELSE << >>

expand_path(path, env) ==
    IF path = << >> THEN path
    ELSE IF path[1] = "~" /\ get_home_directory(env) # << >>
        THEN get_home_directory(env) \o SubSeq(path, 2, Len(path))
    ELSE path

\* The first word of the text that follows a marker ending at position e;
\* empty when no word follows.
FirstWordAfter(s, e) ==
    LET toks == tokenize(SubSeq(s, e + 1, Len(s)))
    IN  IF toks # << >> THEN toks[1] ELSE << >>

\* A marker that is never found.
NeverFound(s) == 0

\* pos_err_append and pos_err: "2>" is looked for only when "2>>" is absent.
ErrAppendPos(s) == Find(s, <<"2", ">", ">">>)
ErrPos(s) == IF ErrAppendPos(s) # 0 THEN 0 ELSE Find(s, <<"2", ">">>)

\* pos_append and pos_out, likewise.
OutAppendPos(s) == Find(s, <<">", ">">>)
OutPos(s) == IF OutAppendPos(s) # 0 THEN 0 ELSE Find(s, <<">">>)

\* The text cut at position pos when the marker was found there.
CutAt(s, pos) == IF pos # 0 THEN SubSeq(s, 1, pos - 1) ELSE s

parse_command(command_str, vs, env) ==
    LET s0 == substitute_variables(command_str, vs, env)
        bg == EndsWith(s0, "&")
        s1 == IF bg THEN StripBackground(s0) ELSE s0
        ea == ErrAppendPos(s1)
        e  == ErrPos(s1)
        s2 == IF ea # 0 THEN CutAt(s1, ea) ELSE CutAt(s1, e)
        oa == OutAppendPos(s2)
        o  == OutPos(s2)
        s3 == IF oa # 0 THEN CutAt(s2, oa) ELSE CutAt(s2, o)
        in == Find(s3, <<"<">>)
        s4 == CutAt(s3, in)
        words == tokenize(s4)
    IN  [args |-> [k \in 1..Len(words) |-> expand_path(words[k], env)],
         input_file |-> IF in # 0 THEN FirstWordAfter(s3, in) ELSE << >>,
         output_file |-> IF oa # 0 THEN FirstWordAfter(s2, oa + 1)
                         ELSE IF o # 0 THEN FirstWordAfter(s2, o)
                         ELSE << >>,
         error_file |-> IF ea # 0 THEN FirstWordAfter(s1, ea + 2)
                        ELSE IF e # 0 THEN FirstWordAfter(s1, e + 1)
                        ELSE << >>,
         append_output |-> oa # 0 /\ FirstWordAfter(s2, oa + 1) # << >>,
         append_error |-> ea # 0 /\ FirstWordAfter(s1, ea + 2) # << >>,
         background |-> bg]

\* Bounded inputs: segments over a word character, the blank and the
\* characters of the markers, and the lines of the specification.
MaxSegLen == 5
SegAlphabet == {"a", SP, ">", "2", "&", "<"}
CmdOut == <<"c", "m", "d", SP, ">", SP, "o", "u", "t", ".", "t", "x", "t">>
CmdErr == <<"c", "m", "d", SP, "2", ">", ">", SP, "e", "r", "r", ".", "l", "o", "g">>
Sleep == <<"s", "l", "e", "e", "p", SP, "5", SP, "&">>
ErrThenOut == <<"c", "m", "d", SP, "2", ">", SP, "e", SP, ">", SP, "o">>
OutThenErr == <<"c", "m", "d", SP, ">", SP, "o", SP, "2", ">", SP, "e">>
SegInputs ==
    Strings(SegAlphabet, MaxSegLen)
        \cup {CmdOut, CmdErr, Sleep, Sleep \o <<SP>>, ErrThenOut, OutThenErr}

ParseInit ==
    /\ SessionInit
    /\ ppc = "input"
    /\ text \in SegInputs
    /\ NoResults
    /\ NoOutput
    /\ NoFiles
    /\ NoVariables
    /\ NoAliases

ParseCommand ==
    /\ ppc = "input"
    /\ commands' = <<parse_command(text, variables, environ)>>
    /\ ppc' = "done"
    /\ UNCHANGED <<text, tokens, variables, environ, expanded, aliases, svars, bvars, ivars>>

ParseNext == ParseCommand

ParseSpec == ParseInit /\ [][ParseNext]_vars

\* ----------------------------------------------------------- parse_pipeline

\* The segments std::getline(ss, segment, '|') extracts from position p on:
\* the text up to the next "|" or to the end; at the end of the stream with
\* nothing left to extract the loop stops.
RECURSIVE GetLines(_, _)
GetLines(s, p) ==
    IF p > Len(s) THEN << >>
    ELSE LET d == FindFrom(s, <<"|">>, p)
         IN  IF d = 0 THEN <<SubSeq(s, p, Len(s))>>
             ELSE <<SubSeq(s, p, d - 1)>> \o GetLines(s, d + 1)

\* A split that keeps the segment after a final "|".
RECURSIVE SplitAll(_, _)
SplitAll(s, p) ==
    LET d == FindFrom(s, <<"|">>, p)
    IN  IF d = 0 THEN <<SubSeq(s, p, Len(s))>>
        ELSE <<SubSeq(s, p, d - 1)>> \o SplitAll(s, d + 1)

\* Only the first segment parsed.
FirstSegmentOnly(line, vs, env) ==
    IF line = << >> THEN << >>
    ELSE <<parse_command(GetLines(line, 1)[1], vs, env)>>

parse_pipeline(line, vs, env) ==
    IF line = << >> THEN << >>
    ELSE LET segs == GetLines(line, 1)
         IN  [i \in 1..Len(segs) |-> parse_command(segs[i], vs, env)]

\* Bounded inputs: lines over the characters of the builtin "ls", the blank,
\* the stage separator, a quote, the home marker and the reference marker;
\* the environment with and without a home directory.
MaxLineLen == 5
LineAlphabet == {"l", "s", SP, "|", DQ, "~", "$"}
\* " ls  s | ls ", "ls ~ | ls" and "ls "s s"".
LsPipe == <<SP, "l", "s", SP, SP, "s", SP, "|", SP, "l", "s", SP>>
LsHome == <<"l", "s", SP, "~", SP, "|", SP, "l", "s">>
LsQuoted == <<"l", "s", SP, DQ, "s", SP, "s", DQ>>
LineExamples == {LsPipe, LsHome, LsQuoted}
HomeDir == <<"h">>
HomeEnvs == {<< >>, [n \in {UserProfile} |-> HomeDir]}

LineInit ==
    /\ SessionInit
    /\ ppc = "input"
    /\ text \in Strings(LineAlphabet, MaxLineLen) \cup LineExamples
    /\ environ \in HomeEnvs
    /\ variables = << >>
    /\ NoResults
    /\ NoOutput
    /\ NoFiles
    /\ NoAliases

ParsePipeline ==
    /\ ppc = "input"
    /\ commands' = parse_pipeline(text, variables, environ)
    /\ ppc' = "parsed"
    /\ UNCHANGED <<text, tokens, variables, environ, expanded, aliases, svars, bvars, ivars>>

LineNext == ParsePipeline

LineSpec == LineInit /\ [][LineNext]_vars

\* ------------------------------------------------- execute: alias expansion

\* The head replaced again when the replacement starts with an alias.
ExpandTwice(args, al) ==
    LET once == IF args[1] \in DOMAIN al
                    THEN tokenize(al[args[1]]) \o Tail(args) ELSE args
    IN  IF once[1] \in DOMAIN al
            THEN tokenize(al[once[1]]) \o Tail(once) ELSE once

\* commands[0].args after the alias step: the alias text tokenized, then
\* the original arguments after the head.
AliasArgs(args, al) ==
    IF args[1] \in DOMAIN al THEN tokenize(al[args[1]]) \o Tail(args)
    ELSE args

\* Bounded inputs: lines over the characters of the words "ls", "ll" and
\* "x", and alias tables over the two names.
MaxAliasLineLen == 4
AliasAlphabet == {"l", "s", "x", SP, "|"}
Ll == <<"l", "l">>
Ls == <<"l", "s">>
LsLong == <<"l", "s", SP, "-", "l">>
AliasNames == {Ll, Ls}
AliasTexts == {LsLong, Ll}

AliasInit ==
    /\ SessionInit
    /\ ppc = "input"
    /\ text \in Strings(AliasAlphabet, MaxAliasLineLen)
    /\ aliases \in Tables(AliasNames, AliasTexts)
    /\ NoResults
    /\ NoOutput
    /\ NoFiles
    /\ NoVariables

\* execute up to the dispatch: nothing to run for an empty pipeline or an
\* empty first command, else the alias step on the first command.
ExpandAlias ==
    /\ ppc = "parsed"
    /\ commands' =
          IF commands = << >> \/ commands[1].args = << >> THEN commands
          ELSE [commands EXCEPT ![1].args = AliasArgs(@, aliases)]
    /\ ppc' = "expanded"
    /\ UNCHANGED <<text, tokens, variables, environ, expanded, aliases, svars, bvars, ivars>>

AliasNext == ParsePipeline \/ ExpandAlias

AliasSpec == AliasInit /\ [][AliasNext]_vars

\* The same lines with alias tables that may hold the empty text, as
\* "alias ll=" stores it.
HeadInit ==
    /\ SessionInit
    /\ ppc = "input"
    /\ text \in Strings(AliasAlphabet, MaxAliasLineLen)
    /\ aliases \in Tables(AliasNames, AliasTexts \cup {<< >>})
    /\ NoResults
    /\ NoOutput
    /\ NoFiles
    /\ NoVariables

HeadSpec == HeadInit /\ [][AliasNext]_vars

\* execute: the stages whose args[0] is compared with the builtin names, in
\* the main thread for a single command (2586) and in each stage's thread
\* otherwise (2630): none when execute returns at 2570.
Dispatched(cs) ==
    IF cs = << >> \/ cs[1].args = << >> THEN {} ELSE 1..Len(cs)

\* The args of stage i at the dispatch, the alias step done.
DispatchArgs(cs, al, i) ==
    IF i = 1 THEN AliasArgs(cs[1].args, al) ELSE cs[i].args

\* ------------------------------------------------------ execute on builtins

NL == "\n"

\* The parts written one after the other with sep between them.
RECURSIVE JoinWith(_, _)
JoinWith(sep, parts) ==
    IF parts = << >> THEN << >>
    ELSE IF Len(parts) = 1 THEN parts[1]
    ELSE parts[1] \o sep \o JoinWith(sep, Tail(parts))
FoundTxt == <<"f", "o", "u", "n", "d", ".", "t", "x", "t">>

\* std::format("{}", n) for the line numbers that occur.
Decimal(n) == <<<<"1">>, <<"2">>, <<"3">>>>[n]

\* echo: the arguments after the name (after "-n" when given), separated by
\* blanks, then a newline unless "-n" was given; returns 0.
EchoFrom(args) == IF Len(args) > 1 /\ args[2] = <<"-", "n">> THEN 3 ELSE 2
EchoText(args) ==
    JoinWith(<<SP>>, SubSeq(args, EchoFrom(args), Len(args)))
    \o (IF EchoFrom(args) = 3 THEN << >> ELSE <<NL>>)

\* grep: the lines of the file that match the pattern, each printed as
\* "path:number: line".  A pattern of letters matches a line that contains
\* it.
GrepUsage(args) == Len(args) < 3
GrepPath(args, env) == expand_path(args[3], env)
GrepHits(args, fs, env) ==
    { n \in 1..Len(fs[GrepPath(args, env)]) :
         Find(fs[GrepPath(args, env)][n], args[2]) # 0 }
RECURSIVE GrepText(_, _, _, _)
GrepText(args, fs, env, n) ==
    IF n > Len(fs[GrepPath(args, env)]) THEN << >>
    ELSE (IF n \in GrepHits(args, fs, env)
             THEN GrepPath(args, env) \o <<":">> \o Decimal(n) \o <<":", SP>>
                  \o fs[GrepPath(args, env)][n] \o <<NL>>
             ELSE << >>)
         \o GrepText(args, fs, env, n + 1)

\* touch: every argument that names no file becomes an empty file.
TouchPaths(args, env) == { expand_path(args[k], env) : k \in 2..Len(args) }
Touched(args, fs, env) ==
    [f \in DOMAIN fs \cup TouchPaths(args, env) |->
        IF f \in DOMAIN fs THEN fs[f] ELSE << >>]

EchoName == <<"e", "c", "h", "o">>
GrepName == <<"g", "r", "e", "p">>
TouchName == <<"t", "o", "u", "c", "h">>

\* Bounded inputs: lines of one or two builtin stages, and the file system
\* with and without found.txt.
BuiltinStages ==
    {<<"e", "c", "h", "o", SP, "h", "i">>,
     <<"e", "c", "h", "o", SP, "-", "n", SP, "h", "i">>,
     <<"g", "r", "e", "p", SP, "h">>,
     <<"g", "r", "e", "p", SP, "h", SP, "f", "o", "u", "n", "d", ".", "t", "x", "t">>,
     <<"t", "o", "u", "c", "h", SP, "f", "o", "u", "n", "d", ".", "t", "x", "t">>,
     <<"g", "r", "e", "p", SP, "h", SP, ">", SP, "f", "o", "u", "n", "d", ".", "t", "x", "t">>,
     <<"e", "c", "h", "o", SP, "h", "i", SP, ">", SP, "f", "o", "u", "n", "d", ".", "t", "x", "t">>}
Bar == <<SP, "|", SP>>
BuiltinLines ==
    BuiltinStages \cup { a \o Bar \o b : a, b \in BuiltinStages }
EchoGrepLine ==
    <<"e", "c", "h", "o", SP, "h", "i", SP, "|", SP, "g", "r", "e", "p", SP, "h", SP, ">", SP, "f", "o", "u", "n", "d", ".", "t", "x", "t">>
InitialFiles ==
    {<< >>,
     [f \in {FoundTxt} |-> <<<<"h", "i">>>>],
     [f \in {FoundTxt} |-> <<<<"n", "o">>, <<"o", "h">>>>]}

BuiltinInit ==
    /\ SessionInit
    /\ ppc = "input"
    /\ text \in BuiltinLines
    /\ files \in InitialFiles
    /\ NoResults
    /\ NoOutput
    /\ NoVariables
    /\ NoAliases

\* execute after the alias step: one thread per stage (the main thread for
\* a single stage), each to call its builtin.
Dispatch ==
    /\ ppc = "expanded"
    /\ IF commands = << >> \/ commands[1].args = << >>
       THEN /\ ppc' = "returned"
            /\ result' = 0
            /\ UNCHANGED <<bpc, codes>>
       ELSE /\ ppc' = "running"
            /\ bpc' = [i \in 1..Len(commands) |-> "ready"]
            /\ codes' = [i \in 1..Len(commands) |-> 0]
            /\ result' = result
    /\ UNCHANGED <<text, tokens, variables, environ, expanded, aliases,
                   commands, files, console, svars, ivars>>

StageReady(i, name) ==
    /\ ppc = "running"
    /\ i \in 1..Len(commands)
    /\ bpc[i] = "ready"
    /\ commands[i].args[1] = name

StageDone(i, code) ==
    /\ bpc' = [bpc EXCEPT ![i] = "done"]
    /\ codes' = [codes EXCEPT ![i] = code]
    /\ UNCHANGED <<text, tokens, variables, environ, expanded, aliases,
                   commands, ppc, result, svars, ivars>>

\* The handler is called with the args alone: neither the redirection files
\* of the Command nor the pipes of its stage are used, and what it prints
\* goes to the shell's standard output.
RunEcho(i) ==
    /\ StageReady(i, EchoName)
    /\ console' = console \o EchoText(commands[i].args)
    /\ files' = files
    /\ StageDone(i, 0)

RunGrep(i) ==
    /\ StageReady(i, GrepName)
    /\ LET args == commands[i].args
       IN  IF GrepUsage(args) \/ GrepPath(args, environ) \notin DOMAIN files
           THEN /\ console' = console
                /\ StageDone(i, 1)
           ELSE /\ console' = console \o GrepText(args, files, environ, 1)
                /\ StageDone(i, IF GrepHits(args, files, environ) # {}
                                   THEN 0 ELSE 1)
    /\ files' = files

RunTouch(i) ==
    /\ StageReady(i, TouchName)
    /\ IF Len(commands[i].args) < 2
       THEN /\ files' = files
            /\ StageDone(i, 1)
       ELSE /\ files' = Touched(commands[i].args, files, environ)
            /\ StageDone(i, 0)
    /\ console' = console

\* Every thread joined: exit_codes.back() is returned.
Return ==
    /\ ppc = "running"
    /\ \A i \in 1..Len(commands) : bpc[i] = "done"
    /\ result' = codes[Len(codes)]
    /\ ppc' = "returned"
    /\ UNCHANGED <<text, tokens, variables, environ, expanded, aliases,
                   commands, files, console, bpc, codes, svars, ivars>>

BuiltinNext ==
    \/ ParsePipeline
    \/ ExpandAlias
    \/ Dispatch
    \/ \E i \in 1..MaxStages : RunEcho(i)
    \/ \E i \in 1..MaxStages : RunGrep(i)
    \/ \E i \in 1..MaxStages : RunTouch(i)
    \/ Return

BuiltinSpec == BuiltinInit /\ [][BuiltinNext]_vars

\* ------------------------------------------- source and initialize_shell
\* A script is a sequence of lines; a line is a comment (or empty), a
\* command that leaves the session as it is, exit, or source of the home
\* start-up script.  "rc" is .jshellrc in the shell's directory and "home"
\* the one in the home directory, a different file.
MaxScriptLen == 2
MaxDepth == 2
ScriptNames == {"rc", "home"}
Comment == "#"
SourceHome == "source home"
ScriptLines == {Comment, "echo", "exit", SourceHome}
ConsoleLines == {"echo", "exit", SourceHome}
Scripts == UNION { [1..n -> ScriptLines] : n \in 0..MaxScriptLen }

\* The variables of a session that sourcing leaves alone.
jvars == <<mpc, cmds, spc, exit_codes, mtx, jobs, next_job_id, ret, procs, ph,
           spid, rh, fgjob, stage_exit, nreg, fgd, redir_failed, npipes,
           hInput, hOutput, th, opened>>

\* source: a call that has opened its file, with the number of lines read,
\* its position ("getline" at the head of the loop, "check" once execute has
\* returned) and whether execute called it or initialize_shell did.
Frame(name, by) == [script |-> name, at |-> 0, pc |-> "getline", caller |-> by]
Top == frames[Len(frames)]
Pop == SubSeq(frames, 1, Len(frames) - 1)
Resume(fs, k) == [fs EXCEPT ![Len(fs)].at = k, ![Len(fs)].pc = "check"]

\* source(args): 1 when the file cannot be opened, else the loop begins.
Opens(name) == name \in DOMAIN scripts

\* initialize_shell: the home script is sourced when it exists (and is not
\* the first one).
HomeSourced == Opens("home")

\* execute on one line: the builtin's effect on running and last_exit_code;
\* source pushes a call (execute assigns last_exit_code when it returns).
ExecuteLine(line, fs) ==
    IF line = SourceHome /\ Opens("home")
    THEN /\ frames' = fs \o <<Frame("home", "execute")>>
         /\ UNCHANGED <<running, last_exit_code>>
    ELSE /\ frames' = fs
         /\ running' = (running /\ line # "exit")
         /\ last_exit_code' = IF line = SourceHome THEN 1 ELSE 0

\* initialize_shell passes source the c_str() of a temporary string that is
\* gone when source reads it: the path read is the script's, or one that
\* names no file (source then returns 1).
Sourced(name) ==
    IF Opens(name) THEN {<<Frame(name, "initialize_shell")>>, << >>} ELSE {<< >>}

\* initialize_shell: .jshellrc of the shell's directory, when it exists.
InitRc ==
    /\ ipc = "rc"
    /\ frames = << >>
    /\ frames' \in Sourced("rc")
    /\ ipc' = "home"
    /\ UNCHANGED <<running, last_exit_code, scripts, jvars, pvars, bvars>>

\* initialize_shell: then .jshellrc of the home directory.
InitHome ==
    /\ ipc = "home"
    /\ frames = << >>
    /\ frames' \in IF HomeSourced THEN Sourced("home") ELSE {<< >>}
    /\ ipc' = "loop"
    /\ UNCHANGED <<running, last_exit_code, scripts, jvars, pvars, bvars>>

\* source: getline returns an empty line or a comment: continue.
SourceSkip ==
    /\ frames # << >>
    /\ Top.pc = "getline"
    /\ Top.at < Len(scripts[Top.script])
    /\ scripts[Top.script][Top.at + 1] = Comment
    /\ frames' = [frames EXCEPT ![Len(frames)].at = @ + 1]
    /\ UNCHANGED <<ipc, running, last_exit_code, scripts, jvars, pvars, bvars>>

\* source: getline returns a command line: parse_pipeline and execute.  A
\* source nested deeper than MaxDepth is left out.
SourceExecute ==
    /\ frames # << >>
    /\ Top.pc = "getline"
    /\ Top.at < Len(scripts[Top.script])
    /\ LET line == scripts[Top.script][Top.at + 1] IN
        /\ line # Comment
        /\ line = SourceHome /\ Opens("home") => Len(frames) < MaxDepth
        /\ ExecuteLine(line, Resume(frames, Top.at + 1))
    /\ UNCHANGED <<ipc, scripts, jvars, pvars, bvars>>

\* source: if (!state.running) break; otherwise the next getline.
SourceCheck ==
    /\ frames # << >>
    /\ Top.pc = "check"
    /\ IF running
       THEN /\ frames' = [frames EXCEPT ![Len(frames)].pc = "getline"]
            /\ UNCHANGED last_exit_code
       ELSE /\ frames' = Pop
            /\ last_exit_code' = IF Top.caller = "execute" THEN 0 ELSE last_exit_code
    /\ UNCHANGED <<ipc, running, scripts, jvars, pvars, bvars>>

\* source: getline finds the end of the file: return 0.
SourceEnd ==
    /\ frames # << >>
    /\ Top.pc = "getline"
    /\ Top.at = Len(scripts[Top.script])
    /\ frames' = Pop
    /\ last_exit_code' = IF Top.caller = "execute" THEN 0 ELSE last_exit_code
    /\ UNCHANGED <<ipc, running, scripts, jvars, pvars, bvars>>

\* shell_loop: while (state.running): a line is read and executed.
LoopLine(line) ==
    /\ ipc = "loop"
    /\ frames = << >>
    /\ running
    /\ ExecuteLine(line, frames)
    /\ UNCHANGED <<ipc, scripts, jvars, pvars, bvars>>

\* shell_loop: state.running is false: the loop ends.
LoopEnd ==
    /\ ipc = "loop"
    /\ frames = << >>
    /\ ~running
    /\ ipc' = "ended"
    /\ UNCHANGED <<frames, running, last_exit_code, scripts, jvars, pvars, bvars>>

StartupInit ==
    /\ StateInit
    /\ ipc = "rc"
    /\ frames = << >>
    /\ scripts \in Tables(ScriptNames, Scripts)
    /\ ppc = "idle"
    /\ NoResults
    /\ NoOutput
    /\ NoFiles
    /\ NoVariables
    /\ NoAliases
    /\ text = << >>

StartupNext ==
    \/ InitRc
    \/ InitHome
    \/ SourceSkip
    \/ SourceExecute
    \/ SourceCheck
    \/ SourceEnd
    \/ \E line \in ConsoleLines : LoopLine(line)
    \/ LoopEnd

StartupSpec == StartupInit /\ [][StartupNext]_vars

\* ------------------------------------------------------------------ claims
\* execute returns a value to shell_loop in this step (a throw returns none).
ExecuteReturns == mpc \in {"single", "join"} /\ mpc' = "read" /\ ret' # NoRet

\* C1: a pipeline of external stages whose first process ends on its own and
\* whose later processes end once they have read end-of-stream terminates:
\* once every stage has started its process, execute eventually returns.
C1_PipelineTerminates ==
    (mpc = "join" /\ \A i \in 1..N : spid[i] # 0) ~> (mpc = "read")

C3_AllJoined ==
    /\ mpc = "join" => \A i \in Stages : (spc[i] # "idle") <=> (i <= N)
    /\ mpc \in {"read", "stopped"} => \A i \in Stages : spc[i] \in {"idle", "done"}

\* execute has returned from a two-stage pipeline.
C3_Witness ==
    /\ mpc = "read"
    /\ spc[1] = "done"
    /\ spc[2] = "done"
    /\ ret # NoRet

\* C4: the k-th job registered in a session gets id k, whatever was removed
\* in between: next_job_id is one more than the number of registrations, no
\* id is given twice, and the ids in the table increase strictly.
C4_JobIds ==
    /\ [](/\ next_job_id = nreg + 1
          /\ \A k \in 1..Len(jobs) : jobs[k].job_id \in 1..nreg
          /\ \A k, m \in 1..Len(jobs) : k < m => jobs[k].job_id < jobs[m].job_id)
    /\ [][nreg' # nreg =>
            /\ nreg' = nreg + 1
            /\ Len(jobs') = Len(jobs) + 1
            /\ jobs'[Len(jobs')].job_id = nreg']_vars

\* Job 1 was removed by fg, and the job registered after it got id 2.
C4_Witness ==
    /\ fgd = {1}
    /\ Len(jobs) = 1
    /\ jobs[1].job_id = 2
    /\ next_job_id = 3

\* C5: every external stage started in the background is recorded as a Job
\* in the table, whatever the length of the pipeline.
C5_BackgroundRecorded ==
    [][\A i \in Stages :
          LaunchReady(i) /\ cmds[i].background /\ spc'[i] = "done"
              /\ Created' # Created
          => \E k \in 1..Len(jobs') : jobs'[k].pid = NextPid]_vars

\* C6: a background launch with a job sink leaves the process running and
\* returns a value no process can exit with (0 in particular).
C6_SentinelDistinct ==
    [][\A i \in Stages :
          LaunchReady(i) /\ cmds[i].background /\ HasState /\ Created' # Created
          => /\ procs'[NextPid].st = "run"
             /\ ret' \notin ExitCodes]_vars

\* C7: after jobs, no job whose process had exited is left in the table,
\* whatever its exit code; its handle is closed; every job whose process is
\* running is still in the table.
C7_JobsReapsExited ==
    [][\A i \in Stages :
          BuiltinReady(i, "jobs") /\ spc'[i] = "done"
          => \A k \in 1..Len(jobs) :
                LET j == jobs[k]
                    kept == \E m \in 1..Len(jobs') : jobs'[m] = j
                IN  /\ procs[j.pid].st = "exited" => ~kept /\ ph'[j.pid] = "closed"
                    /\ procs[j.pid].st = "run" => kept]_vars

\* C8: fg takes exactly the job it names out of the table (the one with the
\* highest id when it names none), waits until the job's process has
\* exited, returns its exit code and closes its handle; the job never is in
\* the table again.
C8_Foreground ==
    /\ [][\A i \in Stages :
            BuiltinReady(i, "fg") /\ spc'[i] = "fgwait"
            => \E k \in 1..Len(jobs) :
                  /\ fgjob'[i] = jobs[k]
                  /\ jobs' = Erase(jobs, k)
                  /\ IF cmds[i].arg = "none"
                     THEN \A m \in 1..Len(jobs) : jobs[m].job_id <= jobs[k].job_id
                     ELSE jobs[k].job_id = stoi(cmds[i].arg)]_vars
    /\ [][\A i \in Stages :
            spc[i] = "fgwait" /\ spc'[i] = "done"
            => /\ procs[fgjob[i].pid].st = "exited"
               /\ (IF Single THEN ret' ELSE exit_codes'[i]) = procs[fgjob[i].pid].code
               /\ ph'[fgjob[i].pid] = "closed"]_vars
    /\ [](\A k \in 1..Len(jobs) : jobs[k].job_id \notin fgd)

\* fg 2 has returned exit code 259 of job 2, and jobs 1 and 3 are in the table.
C8_Witness ==
    /\ mpc = "read"
    /\ fgd = {2}
    /\ ret = STILL_ACTIVE
    /\ ph[2] = "closed"
    /\ Len(jobs) = 2
    /\ jobs[1].job_id = 1
    /\ jobs[2].job_id = 3

\* C9: no error ends the interpreter: whatever the lines, the session goes
\* on until exit.
C9_NeverTerminated == mpc # "terminated"

\* C10: when word 0 resolves to no executable, launch_process returns 127,
\* starts no process and registers no job, whatever the redirections and the
\* background flag of the command.
C10_NotFound ==
    [][\A i \in Stages :
          LaunchReady(i) /\ ~Resolves(cmds[i]) /\ spc'[i] = "done"
          => /\ (IF Single THEN ret' ELSE exit_codes'[i]) = NOT_FOUND
             /\ Created' = Created
             /\ jobs' = jobs]_vars

\* C11: when a redirection file named on a command cannot be opened,
\* launch_process returns 1, starts no process, registers no job, and holds
\* none of the redirection handles it had opened.
C11_RedirFailure ==
    [][\A i \in Stages :
          LaunchReady(i) /\ spc'[i] = "done" /\ redir_failed' # "none"
          => /\ redir_failed' \in cmds[i].redirs
             /\ (IF Single THEN ret' ELSE exit_codes'[i]) = 1
             /\ Created' = Created
             /\ jobs' = jobs
             /\ rh'[i] = {}]_vars

\* launch_process has returned 1 because the error file could not be opened,
\* after it had opened the input and output files; no process exists.
C11_Witness ==
    /\ mpc = "read"
    /\ redir_failed = "error_file"
    /\ ret = 1
    /\ Created = {}
    /\ rh[1] = {}

\* The quote character of the region position i of s lies in ("" outside
\* quoted regions), read off the characters before i.
RECURSIVE OpenQuote(_, _)
OpenQuote(s, i) ==
    IF i = 1 THEN ""
    ELSE LET q == OpenQuote(s, i - 1)
             c == s[i - 1]
         IN  IF q = "" THEN (IF c \in Quotes THEN c ELSE "")
             ELSE IF c = q THEN "" ELSE q

\* Position i holds a quote character that opens or closes a region.
IsQuoteMark(s, i) ==
    \/ OpenQuote(s, i) = "" /\ s[i] \in Quotes
    \/ OpenQuote(s, i) # "" /\ s[i] = OpenQuote(s, i)

\* Position i holds whitespace outside quoted regions.
IsSeparator(s, i) == OpenQuote(s, i) = "" /\ s[i] = SP

\* The characters of s from position a to the next separator (or the end),
\* without the quote marks.
WordFrom(s, a) ==
    LET stop == { j \in a..Len(s) : IsSeparator(s, j) }
        b == IF stop = {} THEN Len(s)
             ELSE (CHOOSE j \in stop : \A m \in stop : j <= m) - 1
        keep == { j \in a..b : ~IsQuoteMark(s, j) }
        RECURSIVE Chars(_)
        Chars(j) == IF j > b THEN << >>
                    ELSE IF j \in keep THEN <<s[j]>> \o Chars(j + 1)
                    ELSE Chars(j + 1)
    IN  Chars(a)

\* The words of s: each maximal run of positions without a separator gives
\* one word, in order, and the empty ones are left out.
WordsOf(s) ==
    LET starts == { i \in 1..Len(s) :
                      ~IsSeparator(s, i) /\ (i = 1 \/ IsSeparator(s, i - 1)) }
        RECURSIVE From(_)
        From(i) == IF i > Len(s) THEN << >>
                   ELSE IF i \in starts /\ WordFrom(s, i) # << >>
                   THEN <<WordFrom(s, i)>> \o From(i + 1)
                   ELSE From(i + 1)
    IN  From(1)

\* C12: tokenize returns the words obtained by splitting on whitespace
\* outside quoted regions; a region is closed only by the quote character
\* that opened it, the quote marks are not in the words, an unterminated
\* region runs to the end, and no word is empty; the three lines of the
\* specification give [a, b c, d], [a, b"c, d] and [a, b c].
C12_Tokenize ==
    ppc = "done" =>
        /\ tokens = WordsOf(text)
        /\ \A k \in 1..Len(tokens) : tokens[k] # << >>
        /\ text = Line1 => tokens = << <<"a">>, <<"b", SP, "c">>, <<"d">> >>
        /\ text = Line2 => tokens = << <<"a">>, <<"b", DQ, "c">>, <<"d">> >>
        /\ text = Line3 => tokens = << <<"a">>, <<"b", SP, "c">> >>

\* tokenize has returned [a, b"c, d] for the line a 'b"c' d.
C12_Witness ==
    /\ ppc = "done"
    /\ text = Line2
    /\ tokens = << <<"a">>, <<"b", DQ, "c">>, <<"d">> >>

\* C15: every recognised reference is replaced by the session table's value
\* when the name is in the table (whatever the environment defines), else by
\* the environment's value, else by the empty string; references are taken
\* left to right, every character outside a reference is kept, and a
\* substituted value is not expanded again.

\* The reference that starts at position i, when the scan from the left
\* reaches i outside any earlier reference.
RECURSIVE RefStarts(_, _)
RefStarts(s, i) ==
    IF i > Len(s) THEN {}
    ELSE IF MatchAt(s, i).last > 0
        THEN {i} \cup RefStarts(s, MatchAt(s, i).last + 1)
    ELSE RefStarts(s, i + 1)

InsideRef(s, i) ==
    \E a \in RefStarts(s, 1) : a < i /\ i <= MatchAt(s, a).last

ExpectedValue(name) ==
    CASE name \in DOMAIN variables -> variables[name]
      [] name \notin DOMAIN variables /\ name \in DOMAIN environ -> environ[name]
      [] OTHER -> << >>

RECURSIVE ExpectedFrom(_, _)
ExpectedFrom(s, i) ==
    IF i > Len(s) THEN << >>
    ELSE (IF i \in RefStarts(s, 1) THEN ExpectedValue(MatchAt(s, i).name)
          ELSE IF InsideRef(s, i) THEN << >>
          ELSE <<s[i]>>)
         \o ExpectedFrom(s, i + 1)

C15_Substitution ==
    ppc = "done" => expanded = ExpectedFrom(text, 1)

\* "$A$B" with A in both tables, its session value a reference itself, and
\* B in the environment only.
C15_Witness ==
    /\ ppc = "done"
    /\ text = <<"$", "A", "$", "B">>
    /\ <<"A">> \in DOMAIN variables /\ <<"A">> \in DOMAIN environ
    /\ variables[<<"A">>] = <<"$", "A">>
    /\ <<"B">> \notin DOMAIN variables /\ <<"B">> \in DOMAIN environ
    /\ expanded = <<"$", "A", "y">>
\* C13: in a segment with exactly one redirection marker, an output one
\* (">" or ">>") or an error one ("2>" or "2>>"), followed by a word, the
\* matching file is the first word after the marker, the matching append
\* flag is true exactly for the two-character form, the args are the words
\* before the marker, and the other file stays unset; ">>" and "2>>" are
\* never read as the shorter marker followed by a stray ">".

\* The one run of ">" in the text: where it starts and how long it is.
GtAt(s) == Find(s, <<">">>)
GtRun(s) == IF GtAt(s) < Len(s) /\ s[GtAt(s) + 1] = ">" THEN 2 ELSE 1
IsErrMarker(s) == GtAt(s) > 1 /\ s[GtAt(s) - 1] = "2"
BeforeMarker(s) ==
    SubSeq(s, 1, IF IsErrMarker(s) THEN GtAt(s) - 2 ELSE GtAt(s) - 1)
AfterMarker(s) == SubSeq(s, GtAt(s) + GtRun(s), Len(s))

OneRedirection(s) ==
    /\ GtAt(s) # 0
    /\ Find(AfterMarker(s), <<">">>) = 0
    /\ Find(s, <<"<">>) = 0
    /\ ~EndsWith(s, "&")
    /\ tokenize(AfterMarker(s)) # << >>

OutTxt == <<"o", "u", "t", ".", "t", "x", "t">>
ErrLog == <<"e", "r", "r", ".", "l", "o", "g">>
Cmd == <<"c", "m", "d">>

C13_Redirection ==
    ppc = "done" =>
        LET cmd == commands[1]
            word == tokenize(AfterMarker(text))[1]
        IN  /\ OneRedirection(text) /\ ~IsErrMarker(text) =>
                /\ cmd.output_file = word
                /\ cmd.append_output <=> GtRun(text) = 2
                /\ cmd.args = tokenize(BeforeMarker(text))
                /\ cmd.error_file = << >> /\ ~cmd.append_error
            /\ OneRedirection(text) /\ IsErrMarker(text) =>
                /\ cmd.error_file = word
                /\ cmd.append_error <=> GtRun(text) = 2
                /\ cmd.args = tokenize(BeforeMarker(text))
                /\ cmd.output_file = << >> /\ ~cmd.append_output
            /\ text = CmdOut =>
                /\ cmd.output_file = OutTxt /\ ~cmd.append_output
                /\ cmd.args = <<Cmd>>
            /\ text = CmdErr =>
                cmd.error_file = ErrLog /\ cmd.append_error

\* "cmd 2>> err.log" parsed.
C13_Witness ==
    /\ ppc = "done"
    /\ text = CmdErr
    /\ OneRedirection(text) /\ IsErrMarker(text) /\ GtRun(text) = 2
    /\ commands[1].error_file = ErrLog
    /\ commands[1].append_error
    /\ commands[1].args = <<Cmd>>
\* C14: the background flag is set exactly when the segment, with the
\* whitespace around it trimmed, ends with "&"; "sleep 5 &" parses to a
\* background Command with args [sleep, 5], and so does the same line with
\* whitespace after the "&".
SleepArgs == <<<<"s", "l", "e", "e", "p">>, <<"5">>>>

C14_Background ==
    ppc = "done" =>
        /\ commands[1].background <=> TrimmedEndsWith(text, "&")
        /\ text \in {Sleep, Sleep \o <<SP>>} =>
              commands[1].background /\ commands[1].args = SleepArgs
\* C16: the alias step rewrites the first command only: its head is replaced
\* by the words of the alias text, followed by the original arguments after
\* the head, and the result is not expanded again: with ll = "ls -l" and
\* ls = "ll", the line "ls x" runs with args [ll, x].
LsX == <<"l", "s", SP, "x">>
CyclicAliases == (Ll :> LsLong) @@ (Ls :> Ll)

C16_AliasOnce ==
    /\ [][ppc = "parsed" /\ ppc' = "expanded" /\ commands # << >>
            /\ commands[1].args # << >> =>
          LET head == commands[1].args[1]
              want == IF head \in DOMAIN aliases
                         THEN tokenize(aliases[head]) \o Tail(commands[1].args)
                         ELSE commands[1].args
          IN  /\ Len(commands') = Len(commands)
              /\ \A i \in 2..Len(commands) : commands'[i] = commands[i]
              /\ commands'[1] = [commands[1] EXCEPT !.args = want]]_vars
    /\ [](ppc = "expanded" /\ text = LsX /\ aliases = CyclicAliases
             => commands[1].args = <<Ll, <<"x">>>>)

C16_Witness ==
    /\ ppc = "expanded"
    /\ text = LsX
    /\ aliases = CyclicAliases
    /\ commands[1].args = <<Ll, <<"x">>>>
\* C17: the empty line yields the empty sequence; a non-empty line with k
\* "|" characters, quoted or not, yields k + 1 Commands, the i-th being the
\* parse of the i-th segment between the separators.
BarCount(s) == Cardinality({i \in 1..Len(s) : s[i] = "|"})

C17_Segments ==
    ppc = "parsed" =>
        /\ text = << >> => commands = << >>
        /\ text # << >> =>
              /\ Len(commands) = BarCount(text) + 1
              /\ \A i \in 1..Len(commands) :
                    commands[i] =
                        parse_command(SplitAll(text, 1)[i], variables, environ)
\* C18: for a pipeline of builtins with no redirection and no background
\* flag, joining each parsed command's args with single blanks and the
\* stages with "|" gives back the line with its whitespace normalized.

Rejoin(cs) ==
    JoinWith(<<"|">>, [i \in 1..Len(cs) |-> JoinWith(<<SP>>, cs[i].args)])

\* The maximal runs of non-blank characters of a text, in order.
RECURSIVE RawWords(_)
RawWords(s) ==
    IF s = << >> THEN << >>
    ELSE IF IsSpace(s[1]) THEN RawWords(Tail(s))
    ELSE LET stop == CHOOSE n \in 1..Len(s) :
                        /\ \A k \in 1..n : ~IsSpace(s[k])
                        /\ n = Len(s) \/ IsSpace(s[n + 1])
         IN  <<SubSeq(s, 1, stop)>> \o RawWords(SubSeq(s, stop + 1, Len(s)))

\* The line with the blanks around words and separators reduced to single
\* blanks between the words of a stage.
Normalized(line) ==
    LET segs == SplitAll(line, 1)
    IN  JoinWith(<<"|">>,
                 [i \in 1..Len(segs) |-> JoinWith(<<SP>>, RawWords(segs[i]))])

LineBuiltins == {Ls}

\* The parsed pipeline is one of builtins, without redirection or background.
BuiltinPipeline(cs) ==
    /\ cs # << >>
    /\ \A i \in 1..Len(cs) :
          /\ cs[i].args # << >> /\ cs[i].args[1] \in LineBuiltins
          /\ cs[i].input_file = << >> /\ cs[i].output_file = << >>
          /\ cs[i].error_file = << >> /\ ~cs[i].background

C18_RoundTripAll ==
    ppc = "parsed" /\ BuiltinPipeline(commands)
        => Rejoin(commands) = Normalized(text)

\* The lines on which the round trip can hold: every stage between two
\* separators starts with a builtin's name, and the text has no quote
\* character, no variable reference and, when a home directory is defined,
\* no word that starts with "~".
PlainLine(line, env) ==
    /\ \A i \in 1..Len(SplitAll(line, 1)) :
          LET ws == RawWords(SplitAll(line, 1)[i])
          IN  /\ ws # << >> /\ ws[1] \in LineBuiltins
              /\ \A k \in 1..Len(ws) :
                    ws[k][1] = "~" => get_home_directory(env) = << >>
    /\ \A k \in 1..Len(line) : line[k] \notin Quotes
    /\ SearchFrom(line, 1) = 0

C18_RoundTrip ==
    ppc = "parsed" /\ BuiltinPipeline(commands) /\ PlainLine(text, environ)
        => Rejoin(commands) = Normalized(text)

\* " ls  s | ls " parsed: two stages, "ls s|ls" rejoined.
C18_Witness ==
    /\ ppc = "parsed"
    /\ text = LsPipe
    /\ BuiltinPipeline(commands) /\ PlainLine(text, environ)
    /\ Len(commands) = 2
    /\ Rejoin(commands) = <<"l", "s", SP, "s", "|", "l", "s">>
\* C20: while a pipeline of N >= 2 stages runs, execute holds exactly N - 1
\* pipes; every external stage that has entered launch_process was given
\* the read side of the pipe before it as input (none for the first stage)
\* and the write side of the pipe after it as output (none for the last);
\* no endpoint is given to two stages.
Launched(i) == i \in 1..N /\ ~IsBuiltin(cmds[i]) /\ spc[i] \in {"wait", "done"}

C20_Endpoints ==
    mpc = "join" =>
        /\ N >= 2 /\ npipes = N - 1
        /\ \A i \in 1..N : Launched(i) =>
              /\ hInput[i] = IF i = 1 THEN NoEndpoint
                             ELSE [pipe |-> i - 1, side |-> "read"]
              /\ hOutput[i] = IF i = N THEN NoEndpoint
                              ELSE [pipe |-> i, side |-> "write"]
              /\ {hInput[i].pipe, hOutput[i].pipe} \subseteq 0..npipes
        /\ \A i, j \in 1..N : Launched(i) /\ Launched(j) /\ i # j =>
              {hInput[i], hOutput[i]} \cap {hInput[j], hOutput[j]}
                  \subseteq {NoEndpoint}

\* Two external stages launched, joined by the one pipe.
C20_Witness ==
    /\ mpc = "join"
    /\ N = 2 /\ npipes = 1
    /\ Launched(1) /\ Launched(2)
    /\ hOutput[1] = WriteSide(1) /\ hInput[2] = ReadSide(1)
    /\ hInput[1] = NoEndpoint /\ hOutput[2] = NoEndpoint
\* C19: once execute has returned from the line "echo hi | grep h >
\* found.txt", the file found.txt exists with a line that contains "hi",
\* and the exit code reported is 0.
C19_EchoGrep ==
    ppc = "returned" /\ text = EchoGrepLine =>
        /\ FoundTxt \in DOMAIN files
        /\ \E n \in 1..Len(files[FoundTxt]) :
              Find(files[FoundTxt][n], <<"h", "i">>) # 0
        /\ result = 0

\* C21: in a segment with one error marker ("2>" or "2>>") and one output
\* marker (">" or ">>"), each followed by a word, in either order, error_file
\* and output_file are the words after their own markers and args are the
\* words before the first marker.

\* The positions at which a run of ">" starts.
GtStarts(s) ==
    { g \in 1..Len(s) : s[g] = ">" /\ (g = 1 \/ s[g - 1] # ">") }
RunLen(s, g) == IF g < Len(s) /\ s[g + 1] = ">" THEN 2 ELSE 1
ErrRun(s, g) == g > 1 /\ s[g - 1] = "2"
MarkerStart(s, g) == IF ErrRun(s, g) THEN g - 1 ELSE g
MarkerEnd(s, g) == g + RunLen(s, g) - 1

\* The text between the marker at g and the next marker (or the end).
TextAfter(s, g) ==
    LET later == { h \in GtStarts(s) : h > g }
        stop == IF later = {} THEN Len(s)
                ELSE MarkerStart(s, CHOOSE h \in later : \A k \in later : h <= k) - 1
    IN  SubSeq(s, MarkerEnd(s, g) + 1, stop)

BothRedirections(s) ==
    /\ Cardinality(GtStarts(s)) = 2
    /\ \A g \in GtStarts(s) :
          /\ g + RunLen(s, g) > Len(s) \/ s[g + RunLen(s, g)] # ">"
          /\ tokenize(TextAfter(s, g)) # << >>
    /\ \E g, h \in GtStarts(s) : ErrRun(s, g) /\ ~ErrRun(s, h)
    /\ Find(s, <<"<">>) = 0
    /\ ~EndsWith(s, "&")

C21_BothRedirections ==
    ppc = "done" /\ BothRedirections(text) =>
        LET ge == CHOOSE g \in GtStarts(text) : ErrRun(text, g)
            go == CHOOSE g \in GtStarts(text) : ~ErrRun(text, g)
            first == IF ge < go THEN ge ELSE go
        IN  /\ commands[1].error_file = tokenize(TextAfter(text, ge))[1]
            /\ commands[1].output_file = tokenize(TextAfter(text, go))[1]
            /\ commands[1].args =
                  tokenize(SubSeq(text, 1, MarkerStart(text, first) - 1))

\* C22: "${NAME}" is a reference only when NAME is an identifier
\* ([A-Za-z_][A-Za-z0-9_]*), as for "$NAME"; a "${...}" with any other
\* content is left as it is.
IsIdentifier(w) ==
    /\ w # << >>
    /\ IsNameStart(w[1])
    /\ \A k \in 2..Len(w) : IsNameChar(w[k])

\* The reference at position i under that reading.
IdentMatchAt(s, i) ==
    IF MatchAt(s, i).last > 0 /\ IsIdentifier(MatchAt(s, i).name)
        THEN MatchAt(s, i)
    ELSE NoMatch

RECURSIVE IdentExpand(_, _)
IdentExpand(s, i) ==
    IF i > Len(s) THEN << >>
    ELSE IF IdentMatchAt(s, i).last > 0
        THEN ExpectedValue(IdentMatchAt(s, i).name)
             \o IdentExpand(s, IdentMatchAt(s, i).last + 1)
    ELSE <<s[i]>> \o IdentExpand(s, i + 1)

C22_BracedIdentifier ==
    ppc = "done" => expanded = IdentExpand(text, 1)

\* C23: in a multi-stage pipeline a stage stores its exit code in exit_codes
\* only while its thread holds mtx, whether the stage is a builtin or an
\* external command.
C23_WritesLocked ==
    [][\A i \in Stages :
          mpc = "join" /\ mpc' # "terminated"
              /\ spc[i] # "done" /\ spc'[i] = "done"
          => mtx = i]_vars

\* C24: whenever launch_process returns for a stage (a redirection file not
\* opened, the command not found, the process not created, the wait over, a
\* background launch with or without a job sink), the stage holds no
\* redirection handle, the thread handle of the process it created is
\* closed, the process handle is closed or belongs to exactly one Job of the
\* table, and no handle has been closed twice.
LaunchReturns(i) ==
    /\ i \in 1..N
    /\ ~IsBuiltin(cmds[i])
    /\ spc[i] \in {"ready", "wait"}
    /\ spc'[i] = "done"

\* The process the returning call has created, 0 for none.
LaunchedPid(i) ==
    IF spc[i] = "wait" THEN spid[i]
    ELSE IF Created' # Created THEN NextPid
    ELSE 0

OwnersOf(js, p) == { k \in 1..Len(js) : js[k].pid = p }

C24_HandlesReleased ==
    [][\A i \in Stages : LaunchReturns(i) =>
          /\ rh'[i] = {}
          /\ LaunchedPid(i) # 0 =>
                /\ th'[LaunchedPid(i)] = "closed"
                /\ \/ ph'[LaunchedPid(i)] = "closed"
                         /\ OwnersOf(jobs', LaunchedPid(i)) = {}
                   \/ ph'[LaunchedPid(i)] = "open"
                         /\ Cardinality(OwnersOf(jobs', LaunchedPid(i))) = 1
          /\ \A p \in Pids : th'[p] # "twice" /\ ph'[p] # "twice"]_vars

\* A foreground command with its three redirection files has been waited
\* for: nothing is left open.
C24_Witness ==
    /\ mpc = "read"
    /\ opened = {"input_file", "output_file", "error_file"}
    /\ ret \in ExitCodes
    /\ th[1] = "closed" /\ ph[1] = "closed"
    /\ rh[1] = {}
    /\ jobs = << >>

\* C25: when word 0 resolves to no executable, launch_process returns 127
\* and has opened (created or truncated) no output or error file.
C25_ResolveFirst ==
    [][\A i \in Stages :
          LaunchReady(i) /\ ~Resolves(cmds[i]) /\ spc'[i] = "done"
          => /\ opened' \cap {"output_file", "error_file"} = {}
             /\ (IF Single THEN ret' ELSE exit_codes'[i]) = NOT_FOUND]_vars
\* C26: fg or bg given a job id that no job in the table has, fg or bg on an
\* empty table, and bg on a job whose is_stopped is false each return 1 and
\* leave state.jobs (entries, flags, process handles) and next_job_id as
\* they were.
NoSuchJob(js, arg) ==
    \/ js = << >>
    \/ arg # "none" /\ stoi(arg) >= 0
         /\ \A k \in 1..Len(js) : js[k].job_id # stoi(arg)

NotStopped(js, arg) ==
    /\ js # << >>
    /\ IF arg = "none"
       THEN ~js[Len(js)].is_stopped
       ELSE /\ stoi(arg) >= 0
            /\ \E k \in 1..Len(js) : js[k].job_id = stoi(arg) /\ ~js[k].is_stopped

C26_JobError ==
    [][\A i \in Stages :
          /\ \/ BuiltinReady(i, "fg") /\ NoSuchJob(jobs, cmds[i].arg)
             \/ BuiltinReady(i, "bg") /\ NoSuchJob(jobs, cmds[i].arg)
             \/ BuiltinReady(i, "bg") /\ NotStopped(jobs, cmds[i].arg)
          /\ spc'[i] # spc[i]
          => /\ spc'[i] = "done"
             /\ (IF Single THEN ret' ELSE exit_codes'[i]) = 1
             /\ jobs' = jobs
             /\ next_job_id' = next_job_id
             /\ ph' = ph]_vars

C26_Witness ==
    /\ mpc = "join"
    /\ Len(cmds) = 2
    /\ cmds[1].name = "fg" /\ cmds[1].arg = "2"
    /\ cmds[2].name = "bg" /\ cmds[2].arg = "none"
    /\ spc[1] = "done" /\ spc[2] = "done"
    /\ exit_codes[1] = 1 /\ exit_codes[2] = 1
    /\ Len(jobs) = 1 /\ jobs[1].job_id = 1
    /\ next_job_id = 2

\* C27: every job in state.jobs has is_stopped false and is_running true in
\* every reachable state, so bg never returns 0 and never changes a job.
C27_NeverStopped ==
    /\ [](\A k \in 1..Len(jobs) : ~jobs[k].is_stopped /\ jobs[k].is_running)
    /\ [][\A i \in Stages :
            BuiltinReady(i, "bg") /\ spc'[i] # spc[i]
            => /\ (IF Single THEN ret' ELSE exit_codes'[i]) # 0
               /\ jobs' = jobs]_vars

C27_Witness ==
    /\ mpc = "join"
    /\ Len(cmds) = 2
    /\ cmds[2].name = "bg" /\ cmds[2].arg = "2"
    /\ spc[2] = "done"
    /\ exit_codes[2] = 1
    /\ Len(jobs) = 2
    /\ jobs[2].job_id = 2
    /\ ~jobs[2].is_stopped /\ jobs[2].is_running

\* C28: execute never reads word 0 of an empty argument list: every stage
\* whose head word is compared with the builtin names has at least one word,
\* whatever the line and the alias table.
C28_HeadWord ==
    ppc = "parsed" =>
        \A i \in Dispatched(commands) :
            DispatchArgs(commands, aliases, i) # << >>

\* The same for the first stage of a line alone.
C28_FirstStage ==
    ppc = "parsed" /\ 1 \in Dispatched(commands) =>
        DispatchArgs(commands, aliases, 1) # << >>

\* The same for the stages after the first.
C28_LaterStages ==
    ppc = "parsed" =>
        \A i \in Dispatched(commands) \ {1} :
            DispatchArgs(commands, aliases, i) # << >>

\* C29: whenever execute returns for a pipeline whose first command has a
\* word, last_exit_code equals the value returned, on every return path,
\* the failure to create a pipe included.
C29_LastExitCode ==
    [][ExecuteReturns \/ (\E line \in Pipelines : PipeFail(line))
         => last_exit_code' = ret']_vars

\* The same for the returns after the stages have run.
C29_AfterStages ==
    [][ExecuteReturns => last_exit_code' = ret']_vars

\* A command line is executed in this step, by source or by shell_loop.
LineExecuted == SourceExecute \/ \E line \in ConsoleLines : LoopLine(line)

\* C30: once exit has set running to false no further command line is
\* executed in the session: source stops before its next line, nested or
\* one of several start-up scripts, and shell_loop reads no further line.
C30_NothingAfterExit ==
    [][~running => ~LineExecuted]_vars

\* The same from the moment initialize_shell has returned.
C30_AfterStartup ==
    [][~running /\ ipc = "loop" /\ (frames # << >> => frames[1].caller = "execute")
         => ~LineExecuted]_vars
====
